---- MODULE Spec2Model ----
(***************************************************************************)
(* Model of the sealed-pokemon-menu inventory store and price refresh.     *)
(*                                                                         *)
(*   inventoryStore.js  (src/unnamed/part_000)  normalisation, atomic      *)
(*                      write, rotating backups                            *)
(*   server.js          (src/unnamed/part_009)  admin save, public view    *)
(*   updatePrices.js    (src/updatePrices.js)   batch refresh, limiter     *)
(*   pullInventory.js, updateAll.js             pull-then-update pipeline  *)
(*                                                                         *)
(* JavaScript values are tagged records.  A string is a sequence of atoms: *)
(* one atom per space character, one atom per run of other characters.     *)
(* A number is an integer count of thousandths (12345 is 12.345), which    *)
(* keeps rounding to cents and truncation to integers exact.  The atom     *)
(* pok^emon stands for the word spelled with e-acute.                      *)
(***************************************************************************)
EXTENDS Integers, Sequences, FiniteSets, TLC

(***************************************************************************)
(* JavaScript values                                                       *)
(***************************************************************************)
Undef == [t |-> "undefined"]
Null == [t |-> "null"]
NaN == [t |-> "nan"]
Infinity == [t |-> "inf"]
Str(s) == [t |-> "string", s |-> s]
Num(m) == [t |-> "number", m |-> m]
Bool(b) == [t |-> "boolean", b |-> b]
Obj(f) == [t |-> "object", f |-> f]

\* One unit in thousandths.
Unit == 10 * 100

IntNum(n) == Num(n * Unit)

\* the one element of a singleton: Only({e(x) : x \in {v}}) is e of the value v,
\* v being evaluated once
Only(S) == CHOOSE x \in S : TRUE

EmptyFields == [k \in {} |-> Undef]

\* obj.key: undefined when the key is absent or obj is no object
Get(v, k) == IF v.t = "object" /\ k \in DOMAIN v.f THEN v.f[k] ELSE Undef

Digits == <<"0", "1", "2", "3", "4", "5", "6", "7", "8", "9">>

IsDigit(a) == \E i \in 1..10 : Digits[i] = a

DigitVal(a) == (CHOOSE i \in 1..10 : Digits[i] = a) - 1

RECURSIVE TrimLeft(_)
TrimLeft(s) == IF s # <<>> /\ Head(s) = " " THEN TrimLeft(Tail(s)) ELSE s

RECURSIVE TrimRight(_)
TrimRight(s) ==
  IF s # <<>> /\ s[Len(s)] = " " THEN TrimRight(SubSeq(s, 1, Len(s) - 1)) ELSE s

\* String.prototype.trim
Trim(s) == TrimRight(TrimLeft(s))

LowerAtom(a) ==
  CASE a = "A" -> "a"
    [] a = "Magic:" -> "magic:"
    [] a = "The" -> "the"
    [] a = "Gathering" -> "gathering"
    [] a = "B" -> "b"
    [] a = "Pokemon" -> "pokemon"
    [] a = "Pok^emon" -> "pok^emon"
    [] a = "MTG" -> "mtg"
    [] a = "S" -> "s"
    [] a = "S2" -> "s2"
    [] a = "Unnamed" -> "unnamed"
    [] OTHER -> a

\* String.prototype.toLowerCase
ToLower(s) == [i \in 1..Len(s) |-> LowerAtom(s[i])]

RECURSIVE NatToStr(_)
NatToStr(n) ==
  IF n < 10 THEN <<Digits[n + 1]>> ELSE NatToStr(n \div 10) \o <<Digits[(n % 10) + 1]>>

RECURSIVE FracToStr(_)
\* the decimals of r thousandths (0 < r < 1000), without trailing zeros
FracToStr(r) ==
  IF r % 10 = 0 THEN FracToStr(r \div 10)
  ELSE IF r < 10 THEN <<Digits[r + 1]>> ELSE FracToStr(r \div 10) \o <<Digits[(r % 10) + 1]>>

Abs(m) == IF m < 0 THEN -m ELSE m

PadFrac(r) ==
  IF r >= 100 THEN <<>> ELSE IF r >= 10 THEN <<"0">> ELSE <<"0", "0">>

\* String(number) for a finite number
NumToStr(m) ==
  (IF m < 0 THEN <<"-">> ELSE <<>>)
    \o NatToStr(Abs(m) \div Unit)
    \o (IF Abs(m) % Unit = 0 THEN <<>>
        ELSE <<".">> \o PadFrac(Abs(m) % Unit) \o FracToStr(Abs(m) % Unit))

RECURSIVE DigitsToNat(_, _)
DigitsToNat(s, acc) ==
  IF s = <<>> THEN acc ELSE DigitsToNat(Tail(s), acc * 10 + DigitVal(Head(s)))

AllDigits(s) == s # <<>> /\ \A i \in 1..Len(s) : IsDigit(s[i])

DotAt(s) == IF \E i \in 1..Len(s) : s[i] = "." THEN CHOOSE i \in 1..Len(s) : s[i] = "." ELSE 0

\* up to three decimals are kept, the rest is below the model's resolution
FracVal(s) == DigitsToNat(SubSeq(s \o <<"0", "0", "0">>, 1, 3), 0)

\* the value of the literal s whose decimal point is at d (0: there is none)
ParseAt(s, d) ==
  IF \A i \in 1..Len(s) : i = d \/ IsDigit(s[i])
  THEN IF d = 0 THEN (IF s = <<>> THEN NaN ELSE Num(DigitsToNat(s, 0) * Unit))
       ELSE IF Len(s) = 1 THEN NaN
       ELSE Num(DigitsToNat(SubSeq(s, 1, d - 1), 0) * Unit + FracVal(SubSeq(s, d + 1, Len(s))))
  ELSE NaN

\* the numeric value of an unsigned decimal literal, NaN when it is none
ParseUnsigned(s) == Only({ParseAt(s, d) : d \in {DotAt(s)}})

Negate(r) == IF r.t = "number" THEN Num(-r.m) ELSE NaN

\* Number(string) of a trimmed string
NumOfTrimmed(u) ==
  IF u = <<>> THEN Num(0)
  ELSE IF Head(u) = "-" THEN Negate(ParseUnsigned(Tail(u)))
  ELSE ParseUnsigned(u)

\* Number(string): surrounding whitespace ignored, "" is 0
StrToNum(s) == Only({NumOfTrimmed(u) : u \in {Trim(s)}})

\* Number(v)
ToNumber(v) ==
  CASE v.t = "number" -> v
    [] v.t = "nan" -> NaN
    [] v.t = "inf" -> Infinity
    [] v.t = "string" -> StrToNum(v.s)
    [] v.t = "boolean" -> IF v.b THEN Num(Unit) ELSE Num(0)
    [] v.t = "null" -> Num(0)
    [] OTHER -> NaN

\* Number.isFinite
IsFinite(v) == v.t = "number"

\* JavaScript truthiness
Truthy(v) ==
  CASE v.t = "undefined" -> FALSE
    [] v.t = "null" -> FALSE
    [] v.t = "nan" -> FALSE
    [] v.t = "string" -> v.s # <<>>
    [] v.t = "number" -> v.m # 0
    [] v.t = "boolean" -> v.b
    [] OTHER -> TRUE

\* Math.round: to the nearest integer, halves towards +infinity
MathRound(m) == ((m + (Unit \div 2)) \div Unit) * Unit

\* Math.trunc: towards zero
MathTrunc(m) == IF m >= 0 THEN (m \div Unit) * Unit ELSE -((-m \div Unit) * Unit)

Max(a, b) == IF a >= b THEN a ELSE b

Min(a, b) == IF a <= b THEN a ELSE b

\* Math.round(n * 100) / 100
RoundCents(m) == ((m + 5) \div 10) * 10

(***************************************************************************)
(* inventoryStore.js: schema and normalisation                             *)
(***************************************************************************)
SCHEMA_VERSION == 1

MAX_BACKUPS == 30

ALLOWED_ITEM_KEYS ==
  {"name", "setName", "quantity", "marketPrice", "yourPrice", "lastUpdated",
   "tcgPlayerId", "tcgPlayerUrl", "imageUrl", "game"}

isNonEmptyString(v) == v.t = "string" /\ Trim(v.s) # <<>>

toSafeString(v) ==
  CASE v.t = "null" -> Null
    [] v.t = "undefined" -> Null
    [] v.t = "string" -> Str(Trim(v.s))
    [] v.t = "number" -> Str(NumToStr(v.m))
    [] v.t = "nan" -> Str(<<"NaN">>)
    [] v.t = "inf" -> Str(<<"Infinity">>)
    [] v.t = "boolean" -> Str(IF v.b THEN <<"true">> ELSE <<"false">>)
    [] OTHER -> Null

\* v === null || v === undefined || v === ""
IsBlank(v) == v.t = "null" \/ v.t = "undefined" \/ (v.t = "string" /\ v.s = <<>>)

\* toInt without the clamp Math.max(0, ...)
toIntUnclamped(v, fallback) ==
  IF IsBlank(v) THEN Num(fallback * Unit)
  ELSE Only({IF ~IsFinite(n) THEN Num(fallback * Unit) ELSE Num(MathTrunc(n.m)) :
             n \in {ToNumber(v)}})

toInt(v, fallback) ==
  IF IsBlank(v) THEN Num(fallback * Unit)
  ELSE Only({IF ~IsFinite(n) THEN Num(fallback * Unit) ELSE Num(Max(0, MathTrunc(n.m))) :
             n \in {ToNumber(v)}})

\* toMoney rounding n instead of n * 100: Math.round(n) / 100
toMoneyUnscaled(v) ==
  IF IsBlank(v) THEN Null
  ELSE Only({IF ~IsFinite(n) THEN Null ELSE Num(MathRound(n.m) \div 100) : n \in {ToNumber(v)}})

toMoney(v) ==
  IF IsBlank(v) THEN Null
  ELSE Only({IF ~IsFinite(n) THEN Null ELSE Num(RoundCents(n.m)) : n \in {ToNumber(v)}})

\* A date string is <<"ISO", digits>> (the canonical toISOString form of the
\* instant) or <<"DATE", digits>> (another spelling Date accepts).
IsDateStr(s) == Len(s) >= 2 /\ Head(s) \in {"ISO", "DATE"} /\ AllDigits(Tail(s))

\* Date.parse of a trimmed string: the instant, or -1 for NaN
ParseDate(u) == IF IsDateStr(u) THEN DigitsToNat(Tail(u), 0) ELSE -1

\* Date.parse: the instant, or -1 for NaN
DateParse(v) == IF v.t = "string" THEN Only({ParseDate(u) : u \in {Trim(v.s)}}) ELSE -1

\* new Date(ms).toISOString()
IsoOf(ms) == Str(<<"ISO">> \o NatToStr(ms))

toIsoOrNull(v) ==
  IF ~isNonEmptyString(v) THEN Null
  ELSE Only({IF ms < 0 THEN Null ELSE IsoOf(ms) : ms \in {DateParse(v)}})

GameOf(g) ==
  IF g = <<"pok^emon">> \/ g = <<"poke">> THEN Str(<<"pokemon">>)
  ELSE IF g = <<"magic:", " ", "the", " ", "gathering">> THEN Str(<<"mtg">>)
  ELSE Str(g)

normalizeGame(v) ==
  IF ~isNonEmptyString(v) THEN Null
  ELSE Only({GameOf(g) : g \in {ToLower(Trim(v.s))}})

\* the fields of f whose value is kept (k -> v for the keys in ks)
Pick(f, ks) == [k \in ks |-> f[k]]

StringKeys == {"name", "setName", "tcgPlayerId", "tcgPlayerUrl", "imageUrl"}

MoneyKeys == {"marketPrice", "yourPrice"}

\* the value normalizeItem computes for the key k of raw
FieldOf(raw, k) ==
  IF k \in StringKeys THEN toSafeString(Get(raw, k))
  ELSE IF k \in MoneyKeys THEN toMoney(Get(raw, k))
  ELSE IF k = "quantity" THEN toInt(Get(raw, k), 0)
  ELSE IF k = "lastUpdated" THEN toIsoOrNull(Get(raw, k))
  ELSE normalizeGame(Get(raw, k))

\* name is always set, "" when there is none
NameOr(v) == IF Truthy(v) THEN v ELSE Str(<<>>)

\* the keys normalizeItem sets on out
KeptKeys(all) ==
  {k \in ALLOWED_ITEM_KEYS :
     IF k \in {"name", "quantity"} THEN TRUE
     ELSE IF k \in MoneyKeys THEN all[k].t # "null"
     ELSE Truthy(all[k])}

normalizeItem(raw) ==
  Only({Obj(Pick(all, KeptKeys(all))) :
        all \in {[k \in ALLOWED_ITEM_KEYS |->
                    IF k = "name" THEN NameOr(FieldOf(raw, k)) ELSE FieldOf(raw, k)]}})

isKeptRow(it) == isNonEmptyString(Get(it, "name")) \/ isNonEmptyString(Get(it, "tcgPlayerId"))

\* items is a JavaScript value: Arr(list) or anything else
Arr(l) == [t |-> "array", l |-> l]

ItemsOrNone(items) == IF items.t = "array" THEN items.l ELSE <<>>

normalizeItems(items) ==
  SelectSeq([i \in 1..Len(ItemsOrNone(items)) |-> normalizeItem(ItemsOrNone(items)[i])], isKeptRow)

(***************************************************************************)
(* JSON.stringify followed by JSON.parse                                   *)
(***************************************************************************)
RECURSIVE JsonOf(_)
JsonOf(v) ==
  CASE v.t \in {"nan", "inf", "undefined"} -> Null
    [] v.t = "array" -> [t |-> "array", l |-> [i \in 1..Len(v.l) |-> JsonOf(v.l[i])]]
    [] v.t = "object" ->
         Obj([k \in {x \in DOMAIN v.f : v.f[x].t # "undefined"} |-> JsonOf(v.f[k])])
    [] OTHER -> v

(***************************************************************************)
(* Files.  A path holds no file (absent), a file opened for writing whose  *)
(* data is not complete yet (torn: empty or a prefix, no valid JSON), or   *)
(* a complete JSON text, kept as the value it parses to.                   *)
(***************************************************************************)
Absent == [kind |-> "absent"]
Torn == [kind |-> "torn"]
JsonFile(v) == [kind |-> "json", v |-> JsonOf(v)]

NoMeta == [schemaVersion |-> Num(0), updatedAt |-> Null]

EmptyRead == [meta |-> NoMeta, items |-> <<>>]

\* Number(parsed.schemaVersion), whatever it is
VersionKept(n) == n

\* Number(parsed.schemaVersion) || 0
VersionOr(n) == IF Truthy(n) THEN n ELSE Num(0)

MetaOf(v) ==
  [schemaVersion |-> VersionOr(ToNumber(Get(v, "schemaVersion"))),
   updatedAt |-> IF isNonEmptyString(Get(v, "updatedAt")) THEN Get(v, "updatedAt") ELSE Null]

\* the shape of a parsed file: a bare array, an object with an items array,
\* or anything else
ShapeOf(v) ==
  IF v.t = "array" THEN "array"
  ELSE IF Truthy(v) /\ Get(v, "items").t = "array" THEN "document"
  ELSE "other"

readInventoryFile(c) ==
  IF c.kind # "json" THEN EmptyRead
  ELSE IF ShapeOf(c.v) = "other" THEN EmptyRead
  ELSE [meta |-> IF ShapeOf(c.v) = "array" THEN NoMeta ELSE MetaOf(c.v),
        items |-> normalizeItems(IF ShapeOf(c.v) = "array" THEN c.v ELSE Get(c.v, "items"))]

loadInventoryItems(c) == readInventoryFile(c).items

\* the payload of writeInventoryFile around its normalized items
PayloadOf(normalizedItems, t) ==
  [t |-> "object",
   f |-> [schemaVersion |-> IntNum(SCHEMA_VERSION), updatedAt |-> IsoOf(t),
          totalItems |-> IntNum(Len(normalizedItems)), items |-> Arr(normalizedItems)]]

\* the payload writeInventoryFile builds from its argument at time t
WritePayload(items, t) ==
  Only({PayloadOf(normalizedItems, t) : normalizedItems \in {normalizeItems(items)}})

MsPerSec == 10 * 100

\* the name stamp YYYYMMDD-HHMMSS of an instant: its whole second
timestampForFilename(t) == t \div MsPerSec

\* the backups modified no earlier than b
NotOlder(bk, b) == {x \in bk : x.mtimeMs >= b.mtimeMs}

\* the backups modified later than b
Newer(bk, b) == {x \in bk : x.mtimeMs > b.mtimeMs}

\* the kept sets: the sure ones and enough of the tied ones
KeptSets(sure, tied, maxKeep) ==
  {sure \cup T : T \in {U \in SUBSET tied : Cardinality(U) = maxKeep - Cardinality(sure)}}

\* the backups kept by a prune: the maxKeep most recently modified; files
\* with equal mtime keep the directory's order, which is not specified
pruneBackups(bk, maxKeep) ==
  IF Cardinality(bk) <= maxKeep THEN {bk}
  ELSE KeptSets({b \in bk : Cardinality(NotOlder(bk, b)) <= maxKeep},
                {b \in bk : /\ Cardinality(Newer(bk, b)) < maxKeep
                            /\ Cardinality(NotOlder(bk, b)) > maxKeep},
                maxKeep)

\* no copy is made: the backups directory stays as it is
copyBackupSkipped(c, bk, t) == bk

\* fs.copyFileSync onto backups/inventory-<stamp>.json: a file of that name
\* is overwritten
copyBackup(c, bk, t) ==
  LET stamp == timestampForFilename(t) IN
  {b \in bk : b.file # stamp} \cup {[file |-> stamp, content |-> c, mtimeMs |-> t]}

\* the backups directory after makeBackupIfExists at time t
makeBackupIfExists(c, bk, t) ==
  IF c.kind = "absent" THEN {bk}
  ELSE pruneBackups(copyBackup(c, bk, t), MAX_BACKUPS)

(***************************************************************************)
(* State                                                                   *)
(***************************************************************************)
VARIABLES
  now,        \* Date.now(), in milliseconds
  fs,         \* the files of the inventory directory: path -> content
  backups,    \* the files of the sibling backups/ directory
  pc,         \* where each process stands
  wdoc,       \* per process: the text its write in progress will commit
  wpre,       \* per process: what INVENTORY_PATH held when that write began
  wtmp,       \* per process: the temporary path of that write, <<>> if none
  lastInput,  \* the items handed to the latest writeInventoryFile call
  lastRead,   \* what the latest readInventoryFile call returned
  job,        \* the script that runs: none, update, pull, all.pull, all.update
  run,        \* the locals of updatePrices main(): inventory, candidates, batches, force
  lim,        \* the rate limiter: its timestamps and the pending timer
  grants,     \* history: the instants at which calls were granted
  lastWriter, \* history: who made the latest commit to INVENTORY_PATH
  ownerDoc,   \* history: INVENTORY_PATH after the latest admin save or pull
  commits,    \* history: the number of commits to INVENTORY_PATH
  nSaves,     \* the number of admin saves begun
  nJobs,      \* the number of script runs begun
  snaps,      \* history: what each write found at INVENTORY_PATH, and when
  sent,       \* history: the requests made to the price API
  out,        \* history: what the runs answered (HTTP responses, exit codes, replies)
  checks,     \* the bot's price checks that await their prices
  lastOnDemandDayKey \* the bot's map userId -> Eastern day of the latest !inventorynow

envVars == <<now, fs, backups>>

writerVars == <<pc, wdoc, wpre, wtmp>>

callVars == <<lastInput, lastRead>>

scriptVars == <<job, run>>

limVars == <<lim, grants>>

histVars == <<lastWriter, ownerDoc, commits, snaps, sent, out>>

countVars == <<nSaves, nJobs>>

botVars == <<checks, lastOnDemandDayKey>>

vars ==
  <<now, fs, backups, pc, wdoc, wpre, wtmp, lastInput, lastRead, job, run, lim, grants,
    lastWriter, ownerDoc, commits, nSaves, nJobs, snaps, sent, out, checks,
    lastOnDemandDayKey>>

NoRead == [meta |-> Null, items |-> <<>>]

\* const lastOnDemandDayKey = {}
NoDayKeys == [u \in {} |-> 0]

\* f with key k set to v
With(f, k, v) == [x \in DOMAIN f \cup {k} |-> IF x = k THEN v ELSE f[x]]

INVENTORY_PATH == <<"inventory.json">>

\* what a read of path sees
FileAt(f, path) == IF path \in DOMAIN f THEN f[path] ELSE Absent

store == FileAt(fs, INVENTORY_PATH)

NoFiles == [x \in {} |-> Absent]

\* a temporary path that is the target itself: the data is written in place
TmpPathInPlace(pid, t) == INVENTORY_PATH

\* `${base}.tmp-${process.pid}-${Date.now()}` in the directory of the target
TmpPath(pid, t) == <<"inventory.json.tmp", pid, t>>

\* fs.writeFileSync, first half: the file is created or truncated
OpenTruncate(f, path) == With(f, path, Torn)

\* the data written straight to INVENTORY_PATH
WriteAllDirect(f, path, data) == With(f, INVENTORY_PATH, data)

\* fs.writeFileSync, second half: all the data is in the file
WriteAll(f, path, data) == With(f, path, data)

\* fs.renameSync
renameSync(f, from, to) ==
  IF from = to THEN f
  ELSE [x \in (DOMAIN f \ {from}) \cup {to} |-> IF x = to THEN f[from] ELSE f[x]]

Server == "server"
Script == "script"
Procs == {Server, Script}

(***************************************************************************)
(* server.js: the public view and the admin save                           *)
(***************************************************************************)
\* String(v)
JsString(v) ==
  CASE v.t = "string" -> v.s
    [] v.t = "number" -> NumToStr(v.m)
    [] v.t = "boolean" -> (IF v.b THEN <<"true">> ELSE <<"false">>)
    [] v.t = "null" -> <<"null">>
    [] v.t = "undefined" -> <<"undefined">>
    [] v.t = "nan" -> <<"NaN">>
    [] v.t = "inf" -> <<"Infinity">>
    [] v.t = "array" -> <<>>
    [] OTHER -> <<"[object", " ", "Object]">>

\* a || b
Or(a, b) == IF Truthy(a) THEN a ELSE b

\* the order of the atoms that occur in names and set names
AtomOrder == <<" ", "0", "1", "2", "3", "a", "b", "c", "product", "s", "s2", "t", "unnamed">>

AtomRank(x) ==
  IF \E i \in 1..Len(AtomOrder) : AtomOrder[i] = x
  THEN CHOOSE i \in 1..Len(AtomOrder) : AtomOrder[i] = x
  ELSE Len(AtomOrder) + 1

RECURSIVE StrLess(_, _)
\* a < b on strings
StrLess(a, b) ==
  IF b = <<>> THEN FALSE
  ELSE IF a = <<>> THEN TRUE
  ELSE IF Head(a) # Head(b) THEN AtomRank(Head(a)) < AtomRank(Head(b))
  ELSE StrLess(Tail(a), Tail(b))

\* (item[k] || "").toLowerCase()
SortKey(it, k) == ToLower(JsString(Or(Get(it, k), Str(<<>>))))

\* the comparator on the keys: by setName, then by name
KeysBefore(sx, sy, nx, ny) ==
  IF StrLess(sx, sy) THEN TRUE ELSE IF sx # sy THEN FALSE ELSE StrLess(nx, ny)

\* the comparator of the public view says x goes before y
ViewBefore(x, y) ==
  KeysBefore(SortKey(x, "setName"), SortKey(y, "setName"), SortKey(x, "name"), SortKey(y, "name"))

RECURSIVE InsertSorted(_, _)
\* x put behind every element that is not after it (the sort is stable)
InsertSorted(x, sorted) ==
  IF sorted = <<>> THEN <<x>>
  ELSE IF ViewBefore(x, Head(sorted)) THEN <<x>> \o sorted
  ELSE <<Head(sorted)>> \o InsertSorted(x, Tail(sorted))

RECURSIVE SortView(_)
SortView(l) ==
  IF l = <<>> THEN <<>> ELSE InsertSorted(l[Len(l)], SortView(SubSeq(l, 1, Len(l) - 1)))

IsPositive(q) == q.t = "number" /\ q.m > 0

\* (i.quantity ?? 0) > 0
InStock(it) == IsPositive(Get(it, "quantity"))

\* GET /api/inventory: the items with quantity > 0, sorted
ApiInventory(c) == Arr(SortView(SelectSeq(loadInventoryItems(c), InStock)))

SetMax(S) == CHOOSE x \in S : \A y \in S : y <= x

\* Map.get after the sets of the loop: the last item set under the key
LastAt(old, S) == IF S = {} THEN Undef ELSE old[SetMax(S)]

HasKey(v, key) == Truthy(v) /\ JsString(v) = key

\* existingById.get(key)
ExistingById(old, key) ==
  LastAt(old, {i \in 1..Len(old) : HasKey(Get(old[i], "tcgPlayerId"), key)})

HasLowerKey(v, key) == Truthy(v) /\ ToLower(JsString(v)) = key

\* existingByName.get(key)
ExistingByName(old, key) ==
  LastAt(old, {i \in 1..Len(old) : HasLowerKey(Get(old[i], "name"), key)})

RowName(row) == Trim(JsString(Or(Get(row, "name"), Str(<<>>))))

RowId(row) == Trim(JsString(Or(Get(row, "tcgPlayerId"), Str(<<>>))))

\* Math.max(1, Math.min(200, Math.round(n * 100) / 100)) of a finite n
ClampPercent(n) ==
  IF IsFinite(n) THEN Num(Max(Unit, Min(200 * Unit, RoundCents(n.m)))) ELSE Null

PercentOf(raw) == IF IsBlank(raw) THEN Null ELSE ClampPercent(ToNumber(raw))

RowPricingPercent(row) == PercentOf(Get(row, "pricingPercent"))

\* Number.isFinite(n) ? Math.max(0, Math.trunc(n)) : 0
ClampQuantity(n) == IF IsFinite(n) THEN Num(Max(0, MathTrunc(n.m))) ELSE Num(0)

QuantityOf(raw) == IF IsBlank(raw) THEN Num(0) ELSE ClampQuantity(ToNumber(raw))

RowQuantity(row) == QuantityOf(Get(row, "quantity"))

MapGame(g) ==
  IF g = <<"pokemon">> \/ g = <<"pok^emon">> \/ g = <<"poke">> THEN Str(<<"pokemon">>)
  ELSE IF g = <<"magic">> \/ g = <<"mtg">> \/ g = <<"magic:", " ", "the", " ", "gathering">>
  THEN Str(<<"mtg">>)
  ELSE IF g = <<"other">> \/ g = <<"misc">> THEN Str(<<"other">>)
  ELSE IF g # <<>> THEN Str(g)
  ELSE Null

RowGame(row) == MapGame(ToLower(Trim(JsString(Or(Get(row, "game"), Str(<<>>))))))

\* (key && map.get(key))
AndGet(key, found) == IF key # <<>> THEN found ELSE Str(<<>>)

\* the record of old that the ids address: by id first, then by name
ExistingFor(name, tcgId, old) ==
  Or(Or(AndGet(tcgId, ExistingById(old, tcgId)),
        AndGet(name, ExistingByName(old, ToLower(name)))),
     Null)

\* f with every key of g set to g's value: { ...f, ...g }
Spread(f, g) == [k \in DOMAIN f \cup DOMAIN g |-> IF k \in DOMAIN g THEN g[k] ELSE f[k]]

TCG_IMAGE_BASE == <<"https://product-images.tcgplayer.com/fit-in/437x437/">>

\* updated.pricingPercent = pricingPercent, if one was given
WithPercent(f, pricingPercent) ==
  IF pricingPercent.t # "null" THEN With(f, "pricingPercent", pricingPercent) ELSE f

\* the record pushed for a row that addresses existing
Updated(name, tcgId, pricingPercent, quantity, game, existing) ==
  Obj(WithPercent(
        Spread(existing.f,
               [name |-> Or(Str(name), Get(existing, "name")),
                tcgPlayerId |-> Or(Str(tcgId), Get(existing, "tcgPlayerId")),
                quantity |-> quantity,
                game |-> IF game.t # "null" THEN game ELSE Or(Get(existing, "game"), Null)]),
        pricingPercent))

\* the record pushed for a row that addresses nothing
Created(name, tcgId, pricingPercent, quantity, game) ==
  Obj([name |-> Or(Str(name), Str(<<"Unnamed", " ", "product">>)),
       tcgPlayerId |-> Or(Str(tcgId), Null),
       quantity |-> quantity,
       game |-> Or(game, Null),
       pricingPercent |-> pricingPercent,
       marketPrice |-> Null,
       yourPrice |-> Null,
       lastUpdated |-> Null,
       tcgPlayerUrl |->
         IF tcgId # <<>> THEN Str(<<"https://www.tcgplayer.com/product/">> \o tcgId) ELSE Null,
       imageUrl |-> IF tcgId # <<>> THEN Str(TCG_IMAGE_BASE \o tcgId \o <<".jpg">>) ELSE Null])

\* every row is pushed as a new record, whatever it addresses
PushedAnew(name, tcgId, pricingPercent, quantity, game, existing) ==
  Created(name, tcgId, pricingPercent, quantity, game)

PushedFor(name, tcgId, pricingPercent, quantity, game, existing) ==
  IF Truthy(existing)
  THEN Updated(name, tcgId, pricingPercent, quantity, game, existing)
  ELSE Created(name, tcgId, pricingPercent, quantity, game)

RowFields(name, tcgId, row, old) ==
  PushedFor(name, tcgId, RowPricingPercent(row), RowQuantity(row), RowGame(row),
            ExistingFor(name, tcgId, old))

\* the record a payload row turns into
RowItem(row, old) == RowFields(RowName(row), RowId(row), row, old)

NamedOrIdentified(name, tcgId) == name # <<>> \/ tcgId # <<>>

\* neither `if (!row) continue` nor `if (!name && !tcgId) continue`
RowKept(row) == Truthy(row) /\ NamedOrIdentified(RowName(row), RowId(row))

RowsOf(kept, old) == [i \in 1..Len(kept) |-> RowItem(kept[i], old)]

\* nextInventory of POST /api/inventory for an array payload
NextInventory(rows, old) == RowsOf(SelectSeq(rows, RowKept), old)

\* what POST /api/inventory hands to saveInventoryItems
AdminItems(payload, c) == Arr(normalizeItems(Arr(NextInventory(payload.l, loadInventoryItems(c)))))

(***************************************************************************)
(* updatePrices.js: the batch price refresh                                *)
(***************************************************************************)
BATCH_SIZE == 20

ONE_DAY_MS == 24 * 60 * 60 * 1000

MAX_BATCH_CALLS_PER_MIN == 10

WINDOW_MS == 60 * 1000

\* Number.isFinite(qty) && qty > 0
IsOwned(qty) == IsFinite(qty) /\ qty.m > 0

\* a record priced exactly a day ago still counts as recent
IsRecentInclusive(ms, t) == ms >= 0 /\ t - ms <= ONE_DAY_MS

\* !Number.isNaN(ms) && now - ms < ONE_DAY_MS
IsRecent(ms, t) == ms >= 0 /\ t - ms < ONE_DAY_MS

\* the filter of main(): identified, owned, and stale unless --force
IsCandidate(item, t, force) ==
  /\ Truthy(item)
  /\ Truthy(Get(item, "tcgPlayerId"))
  /\ IsOwned(ToNumber(Get(item, "quantity")))
  /\ ~ /\ ~force
       /\ Truthy(Get(item, "lastUpdated"))
       /\ IsRecent(DateParse(Get(item, "lastUpdated")), t)

Candidates(inventory, t, force) ==
  {i \in 1..Len(inventory) : IsCandidate(inventory[i], t, force)}

\* String(item.tcgPlayerId).trim()
CandidateId(item) == Trim(JsString(Get(item, "tcgPlayerId")))

\* the candidates that put a new key into idToItems: the first of each id
FirstsOf(inventory, candidates) ==
  {i \in candidates :
     /\ CandidateId(inventory[i]) # <<>>
     /\ \A j \in candidates : j < i => CandidateId(inventory[j]) # CandidateId(inventory[i])}

\* the k-th smallest element of a set of numbers
Nth(S, k) == CHOOSE i \in S : Cardinality({j \in S : j <= i}) = k

\* Array.from(idToItems.keys()): the ids of the candidates, each once, in the
\* order of its first item
KeysFrom(inventory, firsts) ==
  [k \in 1..Cardinality(firsts) |-> CandidateId(inventory[Nth(firsts, k)])]

\* the elements of a list at the positions of a set, in their order
KeysOf(ids, firsts) == [k \in 1..Cardinality(firsts) |-> ids[Nth(firsts, k)]]

\* a lookup for every candidate, whether its id was seen or not
LookupListOfAll(inventory, candidates) == KeysFrom(inventory, candidates)

LookupList(inventory, candidates) == KeysFrom(inventory, FirstsOf(inventory, candidates))

RECURSIVE chunkArray(_, _)
chunkArray(arr, size) ==
  IF arr = <<>> THEN <<>>
  ELSE <<SubSeq(arr, 1, Min(size, Len(arr)))>>
         \o chunkArray(SubSeq(arr, Min(size, Len(arr)) + 1, Len(arr)), size)

IsKey(x, id) == x # <<>> /\ x = id

\* idToItems.get(id): the candidates with that id
ItemsForId(inventory, candidates, id) ==
  {i \in candidates : IsKey(CandidateId(inventory[i]), id)}

IsNullish(v) == v.t = "null" \/ v.t = "undefined"

\* Array.prototype.find: the first element that satisfies Test, or undefined
FirstOf(l, Test(_)) ==
  IF \E i \in 1..Len(l) : Test(l[i])
  THEN l[CHOOSE i \in 1..Len(l) : Test(l[i]) /\ \A j \in 1..(i - 1) : ~Test(l[j])]
  ELSE Undef

IsSealedCondition(v) == v.t = "string" /\ v.s = <<"Sealed">>

IsSealed(v) == Truthy(v) /\ IsSealedCondition(Get(v, "condition"))

HasPrice(v) == Truthy(v) /\ ~IsNullish(Get(v, "price"))

\* Array.isArray(card.variants) ? card.variants : []
ListOr(v) == IF v.t = "array" THEN v.l ELSE <<>>

\* the sealed variant if there is one, else the first variant with a price
PickVariant(variants) ==
  Or(Or(FirstOf(variants, IsSealed), FirstOf(variants, HasPrice)), Null)

ChooseVariant(card) == PickVariant(ListOr(Get(card, "variants")))

\* Number((price * PRICE_MULTIPLIER).toFixed(2)) for PRICE_MULTIPLIER = 0.9:
\* nine tenths of m thousandths, to the nearest cent
YourPrice(m) == ((m * 9 + 50) \div 100) * 10

\* a record without the key k
Without(f, k) == [x \in DOMAIN f \ {k} |-> f[x]]

\* if (!item.imageUrl && item.tcgPlayerId) item.imageUrl = ...
WithImage(f, imageUrl, tcgPlayerId) ==
  IF ~Truthy(imageUrl) /\ Truthy(tcgPlayerId)
  THEN With(f, "imageUrl", Str(TCG_IMAGE_BASE \o JsString(tcgPlayerId) \o <<".jpg">>))
  ELSE f

\* the assignments, with the quantity reset
ApplyPriceResetting(item, card, m, t) ==
  Obj(Spread(item.f, [marketPrice |-> Num(m), yourPrice |-> Num(YourPrice(m)),
                      lastUpdated |-> IsoOf(t), quantity |-> IntNum(0)]))

\* the assignments, with the name taken from the card
ApplyPriceRenaming(item, card, m, t) ==
  Obj(Spread(item.f, [marketPrice |-> Num(m), yourPrice |-> Num(YourPrice(m)),
                      lastUpdated |-> IsoOf(t), name |-> Str(<<"card">>)]))

\* the assignments to an item whose card came with the price m
ApplyPrice(item, card, m, t) ==
  Obj(WithImage(
        Spread(Without(item.f, "priceError"),
               [marketPrice |-> Num(m),
                yourPrice |-> Num(YourPrice(m)),
                setName |-> Or(Or(Get(card, "set_name"), Get(item, "setName")), Null),
                lastUpdated |-> IsoOf(t)]),
        Get(item, "imageUrl"), Get(item, "tcgPlayerId")))

SetPriceError(item, msg) == Obj(With(item.f, "priceError", Str(msg)))

\* a price that is refused stamps lastUpdated all the same
PricedStamped(item, card, price, t) ==
  IF IsNullish(price) \/ ~IsFinite(ToNumber(price)) \/ ToNumber(price).m <= 0
     \/ ToNumber(price).m > 10000 * Unit
  THEN Obj(With(item.f, "lastUpdated", IsoOf(t)))
  ELSE ApplyPrice(item, card, ToNumber(price).m, t)

\* what the loop over itemsForId does to an item for the variant's price
Priced(item, card, price, t) ==
  IF IsNullish(price)
  THEN SetPriceError(item, <<"No", " ", "sealed", " ", "price", " ", "returned">>)
  ELSE IF ~IsFinite(ToNumber(price)) \/ ToNumber(price).m <= 0 \/ ToNumber(price).m > 10000 * Unit
  THEN SetPriceError(item, <<"Unreasonable", " ", "price", " ", "returned">>)
  ELSE ApplyPrice(item, card, ToNumber(price).m, t)

\* the inventory after the card's items were given the price of its variant
CardApplied(inventory, hit, card, price, t) ==
  [i \in 1..Len(inventory) |->
     IF i \in hit THEN Priced(inventory[i], card, price, t) ELSE inventory[i]]

\* the body of the loop over the cards of a response
ProcessCard(inventory, candidates, card, t) ==
  IF ~Truthy(card) \/ ~Truthy(Get(card, "tcgplayerId")) THEN inventory
  ELSE CardApplied(inventory,
                   ItemsForId(inventory, candidates, JsString(Get(card, "tcgplayerId"))),
                   card, Get(ChooseVariant(card), "price"), t)

RECURSIVE ProcessCards(_, _, _, _)
ProcessCards(inventory, candidates, cards, t) ==
  IF cards = <<>> THEN inventory
  ELSE ProcessCards(ProcessCard(inventory, candidates, Head(cards), t), candidates, Tail(cards), t)

\* the response of the price API that threw (network error, status not ok)
Thrown == [t |-> "thrown"]

\* the cards of a response; a thrown or malformed response is skipped
CardsOf(result) ==
  IF result.t = "thrown" THEN <<>>
  ELSE IF result.t = "array" THEN result.l
  ELSE IF Truthy(result) THEN ListOr(Get(result, "data"))
  ELSE <<>>

\* the inventory after one batch
ProcessResponse(inventory, candidates, result, t) ==
  ProcessCards(inventory, candidates, CardsOf(result), t)

(***************************************************************************)
(* Store calls on arbitrary input                                          *)
(***************************************************************************)
BaseFields == [k \in {"name", "tcgPlayerId", "quantity"} |->
                 CASE k = "name" -> Str(<<"A">>)
                   [] k = "tcgPlayerId" -> Str(<<"1">>)
                   [] OTHER -> IntNum(1)]

RawStrings ==
  {Undef, Null, Str(<<>>), Str(<<" ">>), Str(<<" ", "B", " ">>), IntNum(7), Num(1500),
   Bool(TRUE), Obj(EmptyFields)}

RawQuantities ==
  {Null, Str(<<>>), IntNum(0), Num(2700), Num(-1500), Num(-400), Str(<<"3">>),
   Str(<<" ", "4", " ">>), Str(<<"2", ".", "9">>), Str(<<"-", "1">>), Str(<<"x">>), NaN,
   Infinity, Bool(TRUE)}

RawMoney ==
  {Null, Str(<<>>), Num(12345), Num(12344), Num(-15), Str(<<"2", ".", "9", "9", "9">>),
   Str(<<"x">>), Infinity}

RawDates ==
  {Null, Str(<<"ISO", "5">>), Str(<<"DATE", "5">>), Str(<<" ", "DATE", "7", " ">>),
   Str(<<"x">>), IntNum(5)}

RawGames ==
  {Str(<<"Pokemon">>), Str(<<"Pok^emon">>), Str(<<" ", "poke">>), Str(<<"MTG">>),
   Str(<<"Magic:", " ", "The", " ", "Gathering">>), Str(<<"other">>), IntNum(1)}

RawItems ==
  {Obj(With(BaseFields, "name", v)) : v \in RawStrings}
    \cup {Obj(With(BaseFields, "tcgPlayerId", v)) :
            v \in {Null, Str(<<>>), Str(<<" ", "B", " ">>), IntNum(7)}}
    \cup {Obj(With(With(BaseFields, "name", v), "tcgPlayerId", w)) :
            v \in {Undef, Str(<<" ">>)}, w \in {Null, Str(<<" ">>)}}
    \cup {Obj(With(BaseFields, "quantity", v)) : v \in RawQuantities}
    \cup {Obj(With(BaseFields, "marketPrice", v)) : v \in RawMoney}
    \cup {Obj(With(BaseFields, "yourPrice", v)) : v \in {Num(12345), NaN}}
    \cup {Obj(With(BaseFields, "lastUpdated", v)) : v \in RawDates}
    \cup {Obj(With(BaseFields, "game", v)) : v \in RawGames}
    \cup {Obj(With(BaseFields, k, Str(<<" ", "S">>))) : k \in {"setName", "tcgPlayerUrl", "imageUrl"}}
    \cup {Obj(With(BaseFields, k, IntNum(85))) : k \in {"pricingPercent", "priceError", "id"}}
    \cup {Null, Str(<<"A">>), Obj(EmptyFields), Arr(<<>>)}

FirstItems == {Null, Obj(With(BaseFields, "quantity", Num(2700)))}

SecondItems ==
  {Obj(BaseFields),
   Obj(With(With(BaseFields, "marketPrice", Num(-15)), "lastUpdated", Str(<<"DATE", "5">>)))}

RawInputs ==
  {Arr(<<a>>) : a \in RawItems}
    \cup {Arr(<<a, b>>) : a \in FirstItems, b \in SecondItems}
    \cup {Arr(<<>>), Null, Str(<<"A">>), Obj(BaseFields)}

\* the files after a whole writeInventoryFile(INVENTORY_PATH, items) call
WriteFiles(items, tmp) ==
  /\ backups' \in makeBackupIfExists(store, backups, now)
  /\ fs' = renameSync(WriteAll(OpenTruncate(fs, tmp), tmp, JsonFile(WritePayload(items, now))),
                      tmp, INVENTORY_PATH)

\* a whole writeInventoryFile(INVENTORY_PATH, items) call, run to its end
StoreWrite(items) ==
  /\ WriteFiles(items, TmpPath(Script, now))
  /\ lastInput' = items
  /\ lastRead' = NoRead
  /\ UNCHANGED <<now, writerVars, scriptVars, limVars, histVars, botVars, countVars>>

\* a readInventoryFile(INVENTORY_PATH) call
StoreRead ==
  /\ lastRead' = readInventoryFile(store)
  /\ UNCHANGED <<envVars, writerVars, lastInput, scriptVars, limVars, histVars, botVars, countVars>>

\* what a file at INVENTORY_PATH may declare as its version and its date
Versions ==
  {Undef, Null, IntNum(0), IntNum(1), IntNum(2), Num(1500), Str(<<"2">>), Str(<<"x">>),
   Bool(TRUE)}

Stamps == {Undef, Str(<<>>), IsoOf(0), IntNum(5)}

\* files that earlier versions, other tools or a person may have left: not
\* JSON, JSON of another shape, bare lists, envelopes
FilePool ==
  {Torn}
    \cup {JsonFile(v) : v \in {Null, IntNum(3), Str(<<"A">>), Bool(FALSE), Obj(EmptyFields),
                               Obj([items |-> Obj(EmptyFields)]),
                               Obj([schemaVersion |-> IntNum(1), items |-> Null])}}
    \cup {JsonFile(Arr(<<a>>)) : a \in RawItems}
    \cup {JsonFile(Obj([schemaVersion |-> sv, updatedAt |-> st, items |-> l])) :
            sv \in Versions, st \in Stamps,
            l \in {Arr(<<>>), Arr(<<Obj(BaseFields)>>), Arr(<<Null, Obj(BaseFields)>>)}}

\* a file is put at INVENTORY_PATH from outside
PutFile(c) ==
  /\ fs' = With(fs, INVENTORY_PATH, c)
  /\ lastRead' = NoRead
  /\ UNCHANGED <<now, backups, writerVars, lastInput, scriptVars, limVars, histVars, botVars,
                 countVars>>

\* the file is deleted from outside
RemoveFile ==
  /\ store.kind # "absent"
  /\ fs' = NoFiles
  /\ lastRead' = NoRead
  /\ UNCHANGED <<now, backups, writerVars, lastInput, scriptVars, limVars, histVars, botVars,
                 countVars>>

NextRead ==
  \/ \E c \in FilePool : PutFile(c)
  \/ RemoveFile
  \/ StoreRead

NoRun == [inventory |-> <<>>, read |-> <<>>, candidates |-> {}, batches |-> <<>>, force |-> FALSE]

NoTimer == [stamps |-> <<>>, wake |-> 0]

NoWrite == [content |-> Absent, commits |-> 0]

IdleWriters ==
  /\ pc = [p \in Procs |-> "idle"]
  /\ wdoc = [p \in Procs |-> Absent]
  /\ wpre = [p \in Procs |-> NoWrite]
  /\ wtmp = [p \in Procs |-> <<>>]

\* no script runs, no call was limited, nothing was committed
Quiet ==
  /\ job = "none"
  /\ run = NoRun
  /\ lim = NoTimer
  /\ grants = <<>>
  /\ lastWriter = "none"
  /\ commits = 0
  /\ nSaves = 0
  /\ nJobs = 0
  /\ snaps = <<>>
  /\ sent = <<>>
  /\ out = <<>>
  /\ checks = {}
  /\ lastOnDemandDayKey = NoDayKeys

InitNorm ==
  /\ now = 0
  /\ fs = NoFiles
  /\ backups = {}
  /\ IdleWriters
  /\ Quiet
  /\ ownerDoc = Absent
  /\ lastInput = Undef
  /\ lastRead = NoRead

NextNorm ==
  \/ \E items \in RawInputs : StoreWrite(items)
  \/ StoreRead

SpecNorm == InitNorm /\ [][NextNorm]_vars

SpecRead == InitNorm /\ [][NextRead]_vars

(***************************************************************************)
(* The processes: the server (admin saves) and the scripts, step by step   *)
(***************************************************************************)
MaxAdminSaves == 1

MaxJobs == 1

MaxTicks == 1

\* writeInventoryFile up to the backup: the payload is built, nothing is on disk
BeginWrite(p, items) ==
  /\ wdoc' = [wdoc EXCEPT ![p] = JsonFile(WritePayload(items, now))]
  /\ wpre' = [wpre EXCEPT ![p] = [content |-> store, commits |-> commits]]
  /\ wtmp' = [wtmp EXCEPT ![p] = <<>>]
  /\ pc' = [pc EXCEPT ![p] = "backup"]
  /\ lastInput' = lastInput

\* makeBackupIfExists: existsSync and copyFileSync
WBackup(p) ==
  /\ pc[p] = "backup"
  /\ backups' = IF store.kind = "absent" THEN backups ELSE copyBackup(store, backups, now)
  /\ pc' = [pc EXCEPT ![p] = IF store.kind = "absent" THEN "tmpOpen" ELSE "prune"]
  /\ UNCHANGED <<now, fs, wdoc, wpre, wtmp, callVars, scriptVars, limVars, histVars, botVars, countVars>>

\* makeBackupIfExists: pruneBackups
WPrune(p) ==
  /\ pc[p] = "prune"
  /\ backups' \in pruneBackups(backups, MAX_BACKUPS)
  /\ pc' = [pc EXCEPT ![p] = "tmpOpen"]
  /\ UNCHANGED <<now, fs, wdoc, wpre, wtmp, callVars, scriptVars, limVars, histVars, botVars, countVars>>

\* atomicWriteFileSync: the temporary file is named and created
WTmpOpen(p) ==
  /\ pc[p] = "tmpOpen"
  /\ wtmp' = [wtmp EXCEPT ![p] = TmpPath(p, now)]
  /\ fs' = OpenTruncate(fs, TmpPath(p, now))
  /\ pc' = [pc EXCEPT ![p] = "tmpWrite"]
  /\ UNCHANGED <<now, backups, wdoc, wpre, callVars, scriptVars, limVars, histVars, botVars, countVars>>

\* atomicWriteFileSync: the data is in the temporary file
WTmpWrite(p) ==
  /\ pc[p] = "tmpWrite"
  /\ fs' = WriteAll(fs, wtmp[p], wdoc[p])
  /\ pc' = [pc EXCEPT ![p] = "rename"]
  /\ UNCHANGED <<now, backups, wdoc, wpre, wtmp, callVars, scriptVars, limVars, histVars, botVars, countVars>>

\* atomicWriteFileSync: the rename; the caller's run ends, and updateAll goes on
\* to its second child
WRename(p) ==
  /\ pc[p] = "rename"
  /\ fs' = renameSync(fs, wtmp[p], INVENTORY_PATH)
  /\ wtmp' = [wtmp EXCEPT ![p] = <<>>]
  /\ pc' = [pc EXCEPT ![p] = IF p = Script /\ job = "all.pull" THEN "spawn" ELSE "idle"]
  /\ job' = IF p = Server THEN job ELSE IF job = "all.pull" THEN "all.update" ELSE "none"
  /\ commits' = commits + 1
  /\ lastWriter' = IF p = Server THEN "admin"
                   ELSE IF job \in {"pull", "all.pull"} THEN "pull" ELSE "update"
  /\ ownerDoc' = IF p = Server \/ job \in {"pull", "all.pull"}
                 THEN FileAt(fs', INVENTORY_PATH) ELSE ownerDoc
  /\ UNCHANGED <<now, backups, wdoc, wpre, callVars, run, limVars, countVars, snaps, sent, out,
                 botVars>>

\* the process is killed where it stands
Crash(p) ==
  /\ pc[p] \notin {"idle", "dead"}
  /\ pc' = [pc EXCEPT ![p] = "dead"]
  /\ UNCHANGED <<envVars, wdoc, wpre, wtmp, callVars, scriptVars, limVars, histVars, botVars, countVars>>

\* an item by its name, id and quantity
Item(name, id, qty) == [name |-> Str(name), tcgPlayerId |-> Str(id), quantity |-> IntNum(qty)]

SeedItems ==
  <<Obj([name |-> Str(<<"A">>), tcgPlayerId |-> Str(<<"1">>), quantity |-> IntNum(2),
         setName |-> Str(<<"S">>), lastUpdated |-> IsoOf(0)]),
    Obj(Item(<<"B">>, <<"2">>, 0))>>

\* an inventory.json that an earlier save left
SeedDoc == JsonFile(WritePayload(Arr(SeedItems), 0))

\* the bodies the admin page posts
AdminPayloads ==
  {Arr(<<Obj(Item(<<"A">>, <<"1">>, 5))>>),
   Arr(<<Obj(Item(<<"A">>, <<"1">>, 1)), Obj(Item(<<"B">>, <<"1">>, 2))>>),
   Arr(<<Obj([name |-> Str(<<" ", "a", " ">>), quantity |-> Str(<<"3">>)]),
         Obj([name |-> Str(<<"B">>), tcgPlayerId |-> Str(<<"2">>), quantity |-> IntNum(0),
              game |-> Str(<<"Pokemon">>), pricingPercent |-> IntNum(85)])>>),
   Obj(EmptyFields)}

\* POST /api/inventory, up to the backup of its save
AdminSave(payload) ==
  /\ pc[Server] = "idle"
  /\ nSaves < MaxAdminSaves
  /\ nSaves' = nSaves + 1
  /\ IF payload.t = "array"
     THEN BeginWrite(Server, AdminItems(payload, store))
     ELSE UNCHANGED <<writerVars, lastInput>>
  /\ UNCHANGED <<envVars, lastRead, scriptVars, limVars, histVars, botVars, nJobs>>

MAX_CALLS_PER_MINUTE == 10

\* timestamps.filter((t) => now - t < 60_000)
LimiterFilter(stamps, t) == SelectSeq(stamps, LAMBDA x : t - x < WINDOW_MS)

SeqMin(q) == CHOOSE x \in {q[i] : i \in 1..Len(q)} : \A i \in 1..Len(q) : x <= q[i]

\* half the wait
BatchWaitHalved(stamps, t) == (WINDOW_MS - (t - SeqMin(stamps))) \div 2

\* rateLimitedBatchFetch: 60_000 - (now - Math.min(...batchCallTimestamps))
BatchWaitMs(stamps, t) == WINDOW_MS - (t - SeqMin(stamps))

\* rateLimitedFetchSealedPrice: 60_000 - (now - apiCallTimestamps[0]) + 50
SingleWaitMs(stamps, t) == WINDOW_MS - (t - stamps[1]) + 50

Ticks(t) == (t \div ONE_DAY_MS) + ((t % ONE_DAY_MS) \div MsPerSec)

\* time passes: a second, or a day
Tick(d) ==
  /\ Ticks(now + d) <= MaxTicks
  /\ now' = now + d
  /\ UNCHANGED <<fs, backups, writerVars, callVars, scriptVars, limVars, histVars, botVars, countVars>>

Variant(condition, price) == Obj([condition |-> Str(<<condition>>), price |-> price])

\* a card of the price API's response
Card(id, kind) ==
  CASE kind = "sealed" ->
         Obj([tcgplayerId |-> Str(id), set_name |-> Str(<<"S2">>),
              variants |-> Arr(<<Variant("Opened", IntNum(5)), Variant("Sealed", Num(12345))>>)])
    [] kind = "loose" ->
         Obj([tcgplayerId |-> Str(id),
              variants |-> Arr(<<Variant("Opened", Null), Variant("Opened", Str(<<"1", "0">>))>>)])
    [] kind = "unpriced" ->
         Obj([tcgplayerId |-> Str(id), variants |-> Arr(<<Variant("Opened", Null)>>)])
    [] kind = "tiny" ->
         Obj([tcgplayerId |-> Str(id), variants |-> Arr(<<Variant("Sealed", Num(4))>>)])
    [] kind = "most" ->
         Obj([tcgplayerId |-> Str(id), variants |-> Arr(<<Variant("Sealed", IntNum(10000))>>)])
    [] kind = "huge" ->
         Obj([tcgplayerId |-> Str(id), variants |-> Arr(<<Variant("Sealed", Num(10000 * Unit + 1))>>)])
    [] kind = "junk" ->
         Obj([tcgplayerId |-> Str(id), variants |-> Arr(<<Variant("Sealed", Str(<<"x">>))>>)])
    [] OTHER ->
         Obj([tcgplayerId |-> Str(id), variants |-> Arr(<<Variant("Sealed", IntNum(0))>>)])

CardKinds == {"sealed", "loose", "unpriced", "free"}

CardsFor(batch, kind) == Arr([i \in 1..Len(batch) |-> Card(batch[i], kind)])

\* what the price API may answer to a batch of ids
ApiResults(batch) ==
  {Thrown, Obj(EmptyFields), Obj([data |-> CardsFor(batch, "sealed")])}
    \cup {CardsFor(batch, kind) : kind \in CardKinds}

\* saveInventoryItems(INVENTORY_PATH, inventory) once no batch is left
SaveWhenDone(inventory, batches) ==
  IF batches = <<>>
  THEN BeginWrite(Script, Arr(inventory))
  ELSE /\ pc' = [pc EXCEPT ![Script] = "fetch"]
       /\ UNCHANGED <<wdoc, wpre, wtmp, lastInput>>

\* main() from the candidates on: nothing to update, or the first request
UpdateFrom(inventory, candidates, force) ==
  IF candidates = {}
  THEN /\ pc' = [pc EXCEPT ![Script] = "idle"]
       /\ job' = "none"
       /\ run' = [inventory |-> inventory, read |-> inventory,
                  candidates |-> candidates, batches |-> <<>>, force |-> force]
       /\ UNCHANGED <<wdoc, wpre, wtmp, lastInput>>
  ELSE /\ job' = IF pc[Script] = "spawn" THEN job ELSE "update"
       /\ \E batches \in {chunkArray(LookupList(inventory, candidates), BATCH_SIZE)} :
            /\ run' = [inventory |-> inventory, read |-> inventory,
                       candidates |-> candidates, batches |-> batches, force |-> force]
            /\ SaveWhenDone(inventory, batches)

\* updatePrices.js main(), up to its first request; as a script of its own,
\* or as the second child of updateAll
StartUpdate(force) ==
  /\ IF pc[Script] = "spawn" THEN ~force
     ELSE pc[Script] = "idle" /\ job = "none" /\ nJobs < MaxJobs
  /\ nJobs' = IF pc[Script] = "spawn" THEN nJobs ELSE nJobs + 1
  /\ \E inventory \in {loadInventoryItems(store)} :
       \E candidates \in {Candidates(inventory, now, force)} :
         UpdateFrom(inventory, candidates, force)
  /\ lim' = NoTimer
  /\ UNCHANGED <<envVars, lastRead, grants, histVars, botVars, nSaves>>

\* a chunk whose request threw is retried
RemainingRetried(batches, result) ==
  IF result.t = "thrown" THEN batches ELSE Tail(batches)

\* the loop over the batches goes on to b + 1, whatever the response was
Remaining(batches, result) == Tail(batches)

\* batches[b]
CurrentBatch == IF run.batches = <<>> THEN <<>> ELSE Head(run.batches)

\* one turn of the loop over the batches: the limited request, its response,
\* the cards applied; after the last batch the save begins
FetchBatchWith(result, log) ==
  /\ pc[Script] = "fetch"
  /\ run.batches # <<>>
  /\ \E kept \in {LimiterFilter(lim.stamps, now)} :
       /\ Len(kept) < MAX_BATCH_CALLS_PER_MIN
       /\ lim' = [lim EXCEPT !.stamps = Append(kept, now)]
  /\ grants' = Append(grants, now)
  /\ sent' = Append(sent, [batch |-> Head(run.batches), at |-> now,
                          threw |-> result.t = "thrown",
                          run |-> [by |-> "script", n |-> nJobs]])
  /\ \E inventory \in {ProcessResponse(run.inventory, run.candidates, result, now)} :
       \E batches \in {Remaining(run.batches, result)} :
         /\ run' = [run EXCEPT !.inventory = inventory, !.batches = batches]
         /\ SaveWhenDone(inventory, batches)
  /\ out' = log
  /\ UNCHANGED <<envVars, lastRead, job, lastWriter, ownerDoc, commits, snaps, countVars, botVars>>

FetchBatch(result) == FetchBatchWith(result, out)

\* the error of the backup leaves writeInventoryFile: the write is given up
AfterBackupRethrown(threw) == IF threw THEN "idle" ELSE "tmpOpen"

\* the catch around makeBackupIfExists: the warning is logged, the write goes on
AfterBackup(threw) == "tmpOpen"

\* existsSync, ensureDir, copyFileSync or readdirSync throws: the backup file
\* is not made, or is made and nothing is pruned
WBackupFails(p) ==
  /\ pc[p] \in {"backup", "prune"}
  /\ store.kind # "absent"
  /\ pc' = [pc EXCEPT ![p] = AfterBackup(TRUE)]
  /\ out' = Append(out, [warn |-> p])
  /\ UNCHANGED <<envVars, wdoc, wpre, wtmp, callVars, scriptVars, limVars, lastWriter, ownerDoc, botVars,
                 commits, snaps, sent, countVars>>

\* writeFileSync or renameSync of atomicWriteFileSync throws in the refresh:
\* main().catch logs and exits with code 1; what is on disk stays
ScriptFails ==
  /\ pc[Script] \in {"tmpOpen", "tmpWrite", "rename"}
  /\ job = "update"
  /\ pc' = [pc EXCEPT ![Script] = "idle"]
  /\ job' = "none"
  /\ out' = Append(out, [exit |-> 1])
  /\ UNCHANGED <<envVars, wdoc, wpre, wtmp, callVars, run, limVars, lastWriter, ownerDoc, botVars,
                 commits, snaps, sent, countVars>>

\* pullInventory.js starts, as a script of its own or as updateAll's first child
StartPull(all) ==
  /\ pc[Script] = "idle"
  /\ job = "none"
  /\ nJobs < MaxJobs
  /\ nJobs' = nJobs + 1
  /\ job' = IF all THEN "all.pull" ELSE "pull"
  /\ pc' = [pc EXCEPT ![Script] = "download"]
  /\ UNCHANGED <<envVars, wdoc, wpre, wtmp, callVars, run, limVars, histVars, botVars, nSaves>>

\* what GET /api/inventory of the deployed server may answer when it serves
\* the inventory this directory holds
PullResults == {Thrown, JsonOf(ApiInventory(store))}

\* pull() from the parsed response on: the items are saved, or pull throws
SavePulled(json) ==
  IF json.t \in {"array", "object"} /\ (json.t = "array" \/ Get(json, "items").t = "array")
  THEN BeginWrite(Script, IF json.t = "array" THEN json ELSE Get(json, "items")) /\ job' = job
  ELSE /\ pc' = [pc EXCEPT ![Script] = "idle"]
       /\ job' = "none"
       /\ UNCHANGED <<wdoc, wpre, wtmp, lastInput>>

\* pull(): the response arrives and is saved
PullResponse(json) ==
  /\ pc[Script] = "download"
  /\ SavePulled(json)
  /\ UNCHANGED <<envVars, lastRead, run, limVars, histVars, botVars, countVars>>

\* updateAll: execSync of the second child throws
SpawnFails ==
  /\ pc[Script] = "spawn"
  /\ pc' = [pc EXCEPT ![Script] = "idle"]
  /\ job' = "none"
  /\ UNCHANGED <<envVars, wdoc, wpre, wtmp, callVars, run, limVars, histVars, botVars, countVars>>

InitStore ==
  /\ now = 0
  /\ fs \in {NoFiles, [x \in {INVENTORY_PATH} |-> SeedDoc]}
  /\ backups = {}
  /\ IdleWriters
  /\ Quiet
  /\ ownerDoc = store
  /\ lastInput = Undef
  /\ lastRead = NoRead

NextStore ==
  \/ \E payload \in AdminPayloads : AdminSave(payload)
  \/ \E force \in BOOLEAN : StartUpdate(force)
  \/ \E result \in ApiResults(CurrentBatch) : FetchBatch(result)
  \/ \E all \in BOOLEAN : StartPull(all)
  \/ \E json \in PullResults : PullResponse(json)
  \/ SpawnFails
  \/ \E p \in Procs : WBackup(p)
  \/ \E p \in Procs : WPrune(p)
  \/ \E p \in Procs : WTmpOpen(p)
  \/ \E p \in Procs : WTmpWrite(p)
  \/ \E p \in Procs : WRename(p)
  \/ \E p \in Procs : Crash(p)
  \/ \E d \in {MsPerSec, ONE_DAY_MS} : Tick(d)

SpecStore == InitStore /\ [][NextStore]_vars

(***************************************************************************)
(* One refresh run over three chunks                                       *)
(***************************************************************************)
\* products in stock that were never priced by a refresh: two full chunks and
\* one more
ManyItems ==
  [i \in 1..(2 * BATCH_SIZE + 1) |->
     Obj([name |-> Str(<<"A">>), tcgPlayerId |-> Str(NatToStr(i)), quantity |-> IntNum(1),
          marketPrice |-> IntNum(10), yourPrice |-> IntNum(9)])]

InitRefresh ==
  /\ now = 0
  /\ fs = [x \in {INVENTORY_PATH} |-> JsonFile(WritePayload(Arr(ManyItems), 0))]
  /\ backups = {}
  /\ IdleWriters
  /\ Quiet
  /\ ownerDoc = store
  /\ lastInput = Undef
  /\ lastRead = NoRead

NextRefresh ==
  \/ \E force \in BOOLEAN : StartUpdate(force)
  \/ \E result \in ApiResults(CurrentBatch) : FetchBatch(result)
  \/ WBackup(Script)
  \/ WPrune(Script)
  \/ WBackupFails(Script)
  \/ WTmpOpen(Script)
  \/ WTmpWrite(Script)
  \/ WRename(Script)
  \/ ScriptFails
  \/ \E d \in {MsPerSec} : Tick(d)

SpecRefresh == InitRefresh /\ [][NextRefresh]_vars

(***************************************************************************)
(* One refresh run over records of every kind, and prices of every kind    *)
(***************************************************************************)
\* an inventory.json written by hand: records priced a day ago, a day less a
\* second ago and just now (with the id of the first), out of stock, without
\* an id, never priced, and with a date that is no date
MixedItems ==
  <<Obj([name |-> Str(<<"A">>), tcgPlayerId |-> Str(<<"1">>), quantity |-> IntNum(2),
         marketPrice |-> IntNum(10), yourPrice |-> IntNum(9), lastUpdated |-> IsoOf(0)]),
    Obj([name |-> Str(<<"B">>), tcgPlayerId |-> Str(<<"2">>), quantity |-> IntNum(1),
         marketPrice |-> IntNum(10), lastUpdated |-> IsoOf(MsPerSec)]),
    Obj([name |-> Str(<<"C">>), tcgPlayerId |-> Str(<<"3">>), quantity |-> IntNum(0)]),
    Obj([name |-> Str(<<"product">>), quantity |-> IntNum(1)]),
    Obj([name |-> Str(<<"t">>), tcgPlayerId |-> Str(<<"0">>), quantity |-> IntNum(3),
         lastUpdated |-> Str(<<"x">>)]),
    Obj([name |-> Str(<<"a">>), tcgPlayerId |-> Str(<<"1">>), quantity |-> IntNum(1),
         marketPrice |-> IntNum(10), lastUpdated |-> IsoOf(ONE_DAY_MS)])>>

InitPrices ==
  /\ now \in {ONE_DAY_MS, ONE_DAY_MS + MsPerSec}
  /\ fs = [x \in {INVENTORY_PATH} |-> JsonFile(Arr(MixedItems))]
  /\ backups = {}
  /\ IdleWriters
  /\ Quiet
  /\ ownerDoc = store
  /\ lastInput = Undef
  /\ lastRead = NoRead

PriceKinds == CardKinds \cup {"tiny", "most", "huge", "junk"}

\* what the price API may answer to a batch: an error, or a card for each id
PriceResults(batch) == {Thrown} \cup {CardsFor(batch, kind) : kind \in PriceKinds}

NextPrices ==
  \/ \E force \in BOOLEAN : StartUpdate(force)
  \/ \E result \in PriceResults(CurrentBatch) : FetchBatch(result)
  \/ WBackup(Script)
  \/ WPrune(Script)
  \/ WTmpOpen(Script)
  \/ WTmpWrite(Script)
  \/ WRename(Script)

SpecPrices == InitPrices /\ [][NextPrices]_vars

(***************************************************************************)
(* A refresh run from its start to its end, under a fair schedule          *)
(***************************************************************************)
\* records of which a run without --force selects none
SettledItems ==
  <<Obj([name |-> Str(<<"C">>), tcgPlayerId |-> Str(<<"3">>), quantity |-> IntNum(0)]),
    Obj([name |-> Str(<<"product">>), quantity |-> IntNum(1)]),
    Obj([name |-> Str(<<"a">>), tcgPlayerId |-> Str(<<"1">>), quantity |-> IntNum(1),
         marketPrice |-> IntNum(10), lastUpdated |-> IsoOf(ONE_DAY_MS)])>>

InitRun ==
  /\ now = ONE_DAY_MS
  /\ fs \in {[x \in {INVENTORY_PATH} |-> JsonFile(WritePayload(Arr(items), 0))] :
             items \in {ManyItems, MixedItems, SettledItems}}
  /\ backups = {}
  /\ IdleWriters
  /\ Quiet
  /\ ownerDoc = store
  /\ lastInput = Undef
  /\ lastRead = NoRead

\* answers of every kind: an error, an object without data, cards with a price
RunResults(batch) == {Thrown, Obj(EmptyFields), CardsFor(batch, "sealed")}

NextRun ==
  \/ \E force \in BOOLEAN : StartUpdate(force)
  \/ \E result \in RunResults(CurrentBatch) : FetchBatch(result)
  \/ WBackup(Script)
  \/ WPrune(Script)
  \/ WTmpOpen(Script)
  \/ WTmpWrite(Script)
  \/ WRename(Script)

SpecRun == InitRun /\ [][NextRun]_vars

\* the loop stands before a request that the limiter lets through
FetchReady ==
  /\ pc[Script] = "fetch"
  /\ run.batches # <<>>
  /\ Len(LimiterFilter(lim.stamps, now)) < MAX_BATCH_CALLS_PER_MIN

\* every request is answered or fails, and every synchronous step is taken:
\* weak fairness of each step of the run; for the request it is written with
\* its enabling condition FetchReady spelled out
SpecRunFair ==
  /\ SpecRun
  /\ \/ []<>(~FetchReady)
     \/ []<><<\E result \in RunResults(CurrentBatch) : FetchBatch(result)>>_vars
  /\ WF_vars(WBackup(Script))
  /\ WF_vars(WPrune(Script))
  /\ WF_vars(WTmpOpen(Script))
  /\ WF_vars(WTmpWrite(Script))
  /\ WF_vars(WRename(Script))

(***************************************************************************)
(* Refresh runs over inventories of one, one chunk, and more than one      *)
(* chunk of ids, some of them held by two records                          *)
(***************************************************************************)
\* n ids, the first of them held by a second record at the end
RepeatedItems(n) ==
  [i \in 1..(n + 1) |->
     Obj([name |-> Str(<<"A">>), tcgPlayerId |-> Str(NatToStr(((i - 1) % n) + 1)),
          quantity |-> IntNum(1)])]

InitChunks ==
  /\ now = ONE_DAY_MS
  /\ fs \in {[x \in {INVENTORY_PATH} |-> JsonFile(WritePayload(Arr(RepeatedItems(n)), 0))] :
             n \in {1, BATCH_SIZE - 1, BATCH_SIZE, BATCH_SIZE + 1, 2 * BATCH_SIZE,
                    2 * BATCH_SIZE + 1}}
  /\ backups = {}
  /\ IdleWriters
  /\ Quiet
  /\ ownerDoc = store
  /\ lastInput = Undef
  /\ lastRead = NoRead

SpecChunks == InitChunks /\ [][NextRun]_vars

(***************************************************************************)
(* A refresh run whose responses are kept, and the selection after it      *)
(***************************************************************************)
\* the turn of the loop, with the response kept in the history
FetchAnswered(result) ==
  FetchBatchWith(result, Append(out, [answer |-> result, n |-> nJobs]))

\* more answers: no card at all, an object without data
RetryResults(batch) == PriceResults(batch) \cup {Arr(<<>>), Obj(EmptyFields)}

NextRetry ==
  \/ \E force \in BOOLEAN : StartUpdate(force)
  \/ \E result \in RetryResults(CurrentBatch) : FetchAnswered(result)
  \/ WBackup(Script)
  \/ WPrune(Script)
  \/ WTmpOpen(Script)
  \/ WTmpWrite(Script)
  \/ WRename(Script)

SpecRetry == InitPrices /\ [][NextRetry]_vars

(***************************************************************************)
(* POST /api/inventory as one call, with its response                      *)
(***************************************************************************)
MaxPosts == 2

\* const wasQty = Number(existing.quantity || 0); wasQty <= 0
WasEmpty(n) == n.t = "number" /\ n.m <= 0

\* the test before newItems.push: from out of stock to in stock, or created
\* in stock
IsNewFor(existing, quantity) ==
  IF Truthy(existing)
  THEN WasEmpty(ToNumber(Or(Get(existing, "quantity"), Num(0)))) /\ IsPositive(quantity)
  ELSE IsPositive(quantity)

IsNewRow(row, old) ==
  IsNewFor(ExistingFor(RowName(row), RowId(row), old), RowQuantity(row))

\* game || null, pricingPercent ?? null
NullOr(v) == IF IsNullish(v) THEN Null ELSE v

\* an element of newItems as the response carries it
EventOf(item) ==
  [name |-> Get(item, "name"),
   tcgPlayerId |-> Get(item, "tcgPlayerId"),
   quantity |-> Get(item, "quantity"),
   game |-> Or(Get(item, "game"), Null),
   pricingPercent |-> NullOr(Get(item, "pricingPercent"))]

EventsOf(fresh, old) == [i \in 1..Len(fresh) |-> EventOf(RowItem(fresh[i], old))]

\* newItems of the response, for the rows kept
NewItems(kept, old) == EventsOf(SelectSeq(kept, LAMBDA r : IsNewRow(r, old)), old)

\* what atomicWriteFileSync may leave: the rename done, or a throw with the
\* temporary file missing, truncated or complete
TryWrite(f, tmp, data) ==
  {[fs |-> renameSync(WriteAll(OpenTruncate(f, tmp), tmp, data), tmp, INVENTORY_PATH),
    threw |-> FALSE],
   [fs |-> f, threw |-> TRUE],
   [fs |-> OpenTruncate(f, tmp), threw |-> TRUE],
   [fs |-> WriteAll(OpenTruncate(f, tmp), tmp, data), threw |-> TRUE]}

\* the answer is res.json(...) whether the save threw or not
ReplyAlwaysOk(payload, normalizedNext, newItems, threw) ==
  [body |-> payload, status |-> 200, totalItems |-> Len(normalizedNext.l), newItems |-> newItems]

\* res.status(500).json(...) after a throw of the save, else res.json(...)
Reply(payload, normalizedNext, newItems, threw) ==
  IF threw THEN [body |-> payload, status |-> 500]
  ELSE [body |-> payload, status |-> 200, totalItems |-> Len(normalizedNext.l),
        newItems |-> newItems]

\* the handler from the save on
PostSave(payload, old, normalizedNext) ==
  /\ backups' \in makeBackupIfExists(store, backups, now)
  /\ \E w \in TryWrite(fs, TmpPath(Server, now), JsonFile(WritePayload(normalizedNext, now))) :
       /\ fs' = w.fs
       /\ commits' = IF w.threw THEN commits ELSE commits + 1
       /\ out' = Append(out, Reply(payload, normalizedNext,
                                   NewItems(SelectSeq(payload.l, RowKept), old), w.threw))

\* POST /api/inventory, from the request to the response
Post(payload) ==
  /\ Cardinality({i \in 1..Len(out) : "status" \in DOMAIN out[i]}) < MaxPosts
  /\ wpre' = [wpre EXCEPT ![Server] = [content |-> store, commits |-> commits]]
  /\ IF payload.t = "array"
     THEN \E old \in {loadInventoryItems(store)} :
            PostSave(payload, old, AdminItems(payload, store))
     ELSE /\ out' = Append(out, [body |-> payload, status |-> 400])
          /\ UNCHANGED <<fs, backups, commits>>
  /\ UNCHANGED <<now, pc, wdoc, wtmp, callVars, scriptVars, limVars, lastWriter, ownerDoc, snaps,
                 botVars, sent, countVars>>

\* more bodies: a restock, a record back in stock with an override out of
\* range, a new product, a new product out of stock
PostBodies ==
  AdminPayloads
    \cup {Arr(<<Obj(Item(<<"A">>, <<"1">>, 5)),
                Obj([name |-> Str(<<"B">>), tcgPlayerId |-> Str(<<"2">>),
                     quantity |-> IntNum(3), pricingPercent |-> IntNum(250)])>>),
          Arr(<<Obj(Item(<<"A">>, <<"1">>, 2)), Obj(Item(<<"C">>, <<"3">>, 1)),
                Obj([name |-> Str(<<"c">>), quantity |-> IntNum(0)])>>),
          Arr(<<Obj(Item(<<"A">>, <<"1">>, 1)), Null,
                Obj([tcgPlayerId |-> Str(<<"2">>), quantity |-> Str(<<"x">>),
                     pricingPercent |-> Str(<<"8", "5">>)])>>)}

NextAdmin ==
  \/ \E payload \in PostBodies : Post(payload)
  \/ \E d \in {MsPerSec} : Tick(d)

SpecAdmin == InitStore /\ [][NextAdmin]_vars

(***************************************************************************)
(* POST /api/inventory over records that carry prices and links            *)
(***************************************************************************)
PricedItems ==
  <<Obj([name |-> Str(<<"A">>), tcgPlayerId |-> Str(<<"1">>), quantity |-> IntNum(2),
         setName |-> Str(<<"S">>), marketPrice |-> IntNum(10), yourPrice |-> IntNum(9),
         lastUpdated |-> IsoOf(0), tcgPlayerUrl |-> Str(<<"u", "1">>),
         imageUrl |-> Str(<<"i", "1">>)]),
    Obj([name |-> Str(<<"B">>), tcgPlayerId |-> Str(<<"2">>), quantity |-> IntNum(0),
         marketPrice |-> IntNum(20), lastUpdated |-> IsoOf(MsPerSec)]),
    Obj([name |-> Str(<<"C">>), quantity |-> IntNum(1), marketPrice |-> IntNum(5),
         yourPrice |-> IntNum(4)])>>

InitRows ==
  /\ now = 0
  /\ fs = [x \in {INVENTORY_PATH} |-> JsonFile(WritePayload(Arr(PricedItems), 0))]
  /\ backups = {}
  /\ IdleWriters
  /\ Quiet
  /\ ownerDoc = store
  /\ lastInput = Undef
  /\ lastRead = NoRead

\* bodies whose rows address a record by id under another name, by name in
\* another case, by name under an unknown id, twice, or address nothing
RowBodies ==
  {Arr(<<Obj(Item(<<"Z">>, <<"1">>, 5)),
         Obj([name |-> Str(<<"c">>), quantity |-> Str(<<"3">>)])>>),
   Arr(<<Obj(Item(<<"b">>, <<"9">>, 1)), Obj(Item(<<"N">>, <<"7">>, 1))>>),
   Arr(<<Obj([tcgPlayerId |-> Str(<<"1">>), quantity |-> IntNum(1)]),
         Obj([name |-> Str(<<"a">>), quantity |-> IntNum(2)])>>),
   Arr(<<Obj([name |-> Str(<<"A">>), tcgPlayerId |-> Str(<<"1">>), quantity |-> IntNum(1),
              marketPrice |-> IntNum(99), yourPrice |-> IntNum(98),
              lastUpdated |-> IsoOf(ONE_DAY_MS)])>>),
   Arr(<<>>),
   Obj(EmptyFields)}

NextRows ==
  \/ \E payload \in RowBodies : Post(payload)
  \/ \E d \in {MsPerSec} : Tick(d)

SpecRows == InitRows /\ [][NextRows]_vars

(***************************************************************************)
(* The two callers of saveInventoryItems, with writes that fail            *)
(***************************************************************************)
NextFail ==
  \/ \E payload \in AdminPayloads : Post(payload)
  \/ \E force \in BOOLEAN : StartUpdate(force)
  \/ \E result \in ApiResults(CurrentBatch) : FetchBatch(result)
  \/ WBackup(Script)
  \/ WPrune(Script)
  \/ WTmpOpen(Script)
  \/ WTmpWrite(Script)
  \/ WRename(Script)
  \/ ScriptFails

SpecFail == InitStore /\ [][NextFail]_vars

(***************************************************************************)
(* The server and the refresh, each writing once, with backups that may    *)
(* fail                                                                    *)
(***************************************************************************)
NextCopy ==
  \/ \E payload \in AdminPayloads : AdminSave(payload)
  \/ \E force \in BOOLEAN : StartUpdate(force)
  \/ \E result \in RunResults(CurrentBatch) : FetchBatch(result)
  \/ \E p \in Procs : WBackup(p)
  \/ \E p \in Procs : WBackupFails(p)
  \/ \E p \in Procs : WPrune(p)
  \/ \E p \in Procs : WTmpOpen(p)
  \/ \E p \in Procs : WTmpWrite(p)
  \/ \E p \in Procs : WRename(p)
  \/ \E d \in {MsPerSec} : Tick(d)

SpecCopy == InitStore /\ [][NextCopy]_vars

(***************************************************************************)
(* The writers that do not go through inventoryStore: saveInventory of     *)
(* src/server.js and of the second script of src/updatePrices.js           *)
(***************************************************************************)
MaxLegacySaves == 2

\* saveInventory(data) is entered: fs.writeFileSync(INVENTORY_PATH, ...) will
\* write JSON.stringify(data)
saveInventory(p, data) ==
  /\ wdoc' = [wdoc EXCEPT ![p] = JsonFile(data)]
  /\ wpre' = [wpre EXCEPT ![p] = [content |-> store, commits |-> commits]]
  /\ pc' = [pc EXCEPT ![p] = "directOpen"]

\* POST /api/inventory of src/server.js, up to saveInventory(req.body)
LegacyPost(payload) ==
  /\ pc[Server] = "idle"
  /\ nSaves < MaxLegacySaves
  /\ nSaves' = nSaves + 1
  /\ IF payload.t = "array"
     THEN /\ saveInventory(Server, payload)
          /\ out' = out
     ELSE /\ out' = Append(out, [body |-> payload, status |-> 400])
          /\ UNCHANGED <<pc, wdoc, wpre>>
  /\ UNCHANGED <<envVars, wtmp, callVars, scriptVars, limVars, lastWriter, ownerDoc, commits,
                 snaps, sent, botVars, nJobs>>

\* what fetchSealedPrice gives for one product: a price, or an error
LegacyPrices == {Obj([setName |-> Str(<<"S2">>), marketPrice |-> Num(12345)]), Thrown}

\* one pass of the loop of main(): the item without an id or whose fetch
\* threw is left alone, the others get setName, marketPrice and an image
LegacyApply(item, data) ==
  IF ~Truthy(Get(item, "tcgPlayerId")) \/ data.t = "thrown" THEN item
  ELSE Obj(WithImage(Spread(item.f, [setName |-> Get(data, "setName"),
                                     marketPrice |-> Get(data, "marketPrice")]),
                     Get(item, "imageUrl"), Get(item, "tcgPlayerId")))

\* the inventory main() saves: the parsed file, its items updated if it is a list
LegacyUpdated(parsed, results) ==
  IF parsed.t = "array"
  THEN Arr([i \in 1..Len(parsed.l) |-> LegacyApply(parsed.l[i], results[i])])
  ELSE parsed

\* loadInventory() or the loop threw: the file is missing or no JSON, the file
\* is null, or an element of the list is null
LegacyThrows(c) ==
  \/ c.kind # "json"
  \/ c.v.t = "null"
  \/ c.v.t = "array" /\ \E i \in 1..Len(c.v.l) : IsNullish(c.v.l[i])

LegacyLen(c) == IF c.kind = "json" /\ c.v.t = "array" THEN Len(c.v.l) ELSE 0

\* the second script of updatePrices.js, from loadInventory() to
\* saveInventory(inventory)
LegacyUpdate(results) ==
  /\ pc[Script] = "idle"
  /\ job = "none"
  /\ nJobs < MaxJobs
  /\ nJobs' = nJobs + 1
  /\ IF LegacyThrows(store)
     THEN /\ out' = Append(out, [exit |-> 1])
          /\ UNCHANGED <<pc, wdoc, wpre, job>>
     ELSE /\ saveInventory(Script, LegacyUpdated(store.v, results))
          /\ job' = "update"
          /\ out' = out
  /\ UNCHANGED <<envVars, wtmp, callVars, run, limVars, lastWriter, ownerDoc, commits, snaps,
                 sent, botVars, nSaves>>

\* fs.writeFileSync(INVENTORY_PATH, ...), first half: the file is truncated
DirectOpen(p) ==
  /\ pc[p] = "directOpen"
  /\ fs' = OpenTruncate(fs, INVENTORY_PATH)
  /\ pc' = [pc EXCEPT ![p] = "directWrite"]
  /\ UNCHANGED <<now, backups, wdoc, wpre, wtmp, callVars, scriptVars, limVars, histVars,
                 botVars, countVars>>

\* fs.writeFileSync(INVENTORY_PATH, ...), second half: the data is in the file;
\* the server answers, the script ends
DirectWrite(p) ==
  /\ pc[p] = "directWrite"
  /\ fs' = WriteAll(fs, INVENTORY_PATH, wdoc[p])
  /\ pc' = [pc EXCEPT ![p] = "idle"]
  /\ job' = IF p = Script THEN "none" ELSE job
  /\ commits' = commits + 1
  /\ lastWriter' = IF p = Server THEN "admin" ELSE "update"
  /\ ownerDoc' = IF p = Server THEN wdoc[p] ELSE ownerDoc
  /\ out' = Append(out, IF p = Server THEN [status |-> 200] ELSE [exit |-> 0])
  /\ UNCHANGED <<now, backups, wdoc, wpre, wtmp, callVars, run, limVars, snaps, sent, botVars,
                 countVars>>

NextLegacy ==
  \/ \E payload \in AdminPayloads : LegacyPost(payload)
  \/ \E results \in [1..LegacyLen(store) -> LegacyPrices] : LegacyUpdate(results)
  \/ \E p \in Procs : DirectOpen(p)
  \/ \E p \in Procs : DirectWrite(p)
  \/ \E p \in Procs : Crash(p)

SpecLegacy == InitStore /\ [][NextLegacy]_vars

(***************************************************************************)
(* Successive saves of one script, and the backups they leave              *)
(***************************************************************************)
MaxQuick == 1

MaxWrites == MAX_BACKUPS + 2

\* the writes of a history that found a backup of their second already made
Collisions(h) == Len(h) - Cardinality({timestampForFilename(h[i].at) : i \in 1..Len(h)})

\* what a write at time t adds to the history: the file it found, if any
Found(h, c, t) == IF c.kind = "absent" THEN h ELSE Append(h, [content |-> c, at |-> t])

\* INVENTORY_PATH was written at the instant t
WrittenAt(c, t) == c.kind = "json" /\ Get(c.v, "updatedAt") = IsoOf(t)

\* saveInventoryItems(INVENTORY_PATH, items), run to its end
SnapWrite(items) ==
  /\ commits < MaxWrites
  /\ commits' = commits + 1
  /\ \E h \in {Found(snaps, store, now)} :
       /\ Collisions(h) <= MaxQuick
       /\ snaps' = h
  /\ WriteFiles(items, TmpPath(Script, now))
  /\ UNCHANGED <<now, writerVars, callVars, scriptVars, limVars, lastWriter, ownerDoc, countVars, botVars,
               sent, out>>

\* time passes between two saves: a millisecond, or a second
Pass(d) ==
  /\ WrittenAt(store, now)
  /\ now + d <= MaxWrites * MsPerSec
  /\ now' = now + d
  /\ UNCHANGED <<fs, backups, writerVars, callVars, scriptVars, limVars, histVars, botVars, countVars>>

NextBackup ==
  \/ SnapWrite(Arr(SeedItems))
  \/ \E d \in {1, MsPerSec} : Pass(d)

SpecBackup == InitStore /\ [][NextBackup]_vars

(***************************************************************************)
(* The rate limiters, called by one loop that awaits each call             *)
(***************************************************************************)
MaxGrants == 12

MaxWindows == 2

\* the limit of the limiter in use
CallsPerMinute(which) ==
  IF which = "batch" THEN MAX_BATCH_CALLS_PER_MIN ELSE MAX_CALLS_PER_MINUTE

\* waitMs of the limiter in use
WaitMs(which, stamps, t) ==
  IF which = "batch" THEN BatchWaitMs(stamps, t) ELSE SingleWaitMs(stamps, t)

\* the limiter with the timestamps kept: the call is granted, or awaits its timer
Acquire(which, kept) ==
  IF Len(kept) >= CallsPerMinute(which)
  THEN /\ lim' = [stamps |-> kept, wake |-> now + WaitMs(which, kept, now)]
       /\ pc' = [pc EXCEPT ![Script] = "wait"]
       /\ grants' = grants
  ELSE /\ lim' = [stamps |-> Append(kept, now), wake |-> lim.wake]
       /\ pc' = pc
       /\ grants' = Append(grants, now)

\* rateLimitedBatchFetch / rateLimitedFetchSealedPrice up to the await or the push
LimitedCall ==
  /\ pc[Script] = "idle"
  /\ Len(grants) < MaxGrants
  /\ Acquire(job, LimiterFilter(lim.stamps, now))
  /\ UNCHANGED <<envVars, wdoc, wpre, wtmp, callVars, scriptVars, histVars, botVars, countVars>>

\* the timer of the await fires, on time or late, and the timestamp is pushed
TimerFires(late) ==
  /\ pc[Script] = "wait"
  /\ now' = Max(now, lim.wake) + late
  /\ lim' = [lim EXCEPT !.stamps = Append(lim.stamps, now')]
  /\ grants' = Append(grants, now')
  /\ pc' = [pc EXCEPT ![Script] = "idle"]
  /\ UNCHANGED <<fs, backups, wdoc, wpre, wtmp, callVars, scriptVars, histVars, botVars, countVars>>

\* the loop does other work between two calls
Advance(d) ==
  /\ pc[Script] = "idle"
  /\ now + d <= MaxWindows * WINDOW_MS
  /\ now' = now + d
  /\ UNCHANGED <<fs, backups, writerVars, callVars, scriptVars, limVars, histVars, botVars, countVars>>

InitLimiter ==
  /\ now = 0
  /\ fs = NoFiles
  /\ backups = {}
  /\ IdleWriters
  /\ job \in {"batch", "single"}
  /\ run = NoRun
  /\ lim = NoTimer
  /\ grants = <<>>
  /\ lastWriter = "none"
  /\ ownerDoc = Absent
  /\ commits = 0
  /\ nSaves = 0
  /\ nJobs = 0
  /\ snaps = <<>>
  /\ sent = <<>>
  /\ out = <<>>
  /\ checks = {}
  /\ lastOnDemandDayKey = NoDayKeys
  /\ lastInput = Undef
  /\ lastRead = NoRead

NextLimiter ==
  \/ LimitedCall
  \/ \E late \in {0, 1} : TimerFires(late)
  \/ \E d \in {WINDOW_MS \div 2} : Advance(d)

SpecLimiter == InitLimiter /\ [][NextLimiter]_vars

(***************************************************************************)
(* discordBot: the watchlists in userPortfolios.json                       *)
(***************************************************************************)
PORTFOLIO_PATH == <<"userPortfolios.json">>

\* Number(process.env.PRICE_ALERT_PCT ?? 0), the variable not set
PRICE_ALERT_PCT == 0

MaxReplies == 3

MaxChecks == 2

\* a ?? b
Coalesce(a, b) == IF IsNullish(a) THEN b ELSE a

toIsoIfValid(d) ==
  IF ~Truthy(d) THEN Undef
  ELSE Only({IF ms < 0 THEN Undef ELSE IsoOf(ms) : ms \in {DateParse(d)}})

numOrUndef(x) == Only({IF IsFinite(n) THEN n ELSE Undef : n \in {ToNumber(x)}})

\* String(raw?.tcgplayerId ?? raw?.id ?? "").trim()
WatchId(raw) ==
  Trim(JsString(Coalesce(Get(raw, "tcgplayerId"), Coalesce(Get(raw, "id"), Str(<<>>)))))

\* raw?.label != null ? String(raw.label).trim() : ""
WatchLabel(label) == IF IsNullish(label) THEN <<>> ELSE Trim(JsString(label))

\* the normalized record of normalizePortfolios
normalizeWatch(raw) ==
  Obj([tcgplayerId |-> Str(WatchId(raw)),
       label |-> Str(WatchLabel(Get(raw, "label"))),
       addedAt |-> toIsoIfValid(Get(raw, "addedAt")),
       addedMarketPrice |-> numOrUndef(Get(raw, "addedMarketPrice")),
       lastCheckedAt |-> toIsoIfValid(Get(raw, "lastCheckedAt")),
       lastMarketPrice |-> numOrUndef(Get(raw, "lastMarketPrice")),
       lastAlertedAt |-> toIsoIfValid(Get(raw, "lastAlertedAt"))])

\* the record kept for an id that occurs again in the list
MergeWatch(existing, normalized) ==
  Obj(Spread(existing.f,
             [label |-> Or(Get(normalized, "label"), Get(existing, "label")),
              addedAt |-> Or(Get(existing, "addedAt"), Get(normalized, "addedAt")),
              addedMarketPrice |-> Coalesce(Get(existing, "addedMarketPrice"),
                                            Get(normalized, "addedMarketPrice")),
              lastCheckedAt |-> Or(Get(normalized, "lastCheckedAt"), Get(existing, "lastCheckedAt")),
              lastMarketPrice |-> Coalesce(Get(normalized, "lastMarketPrice"),
                                           Get(existing, "lastMarketPrice")),
              lastAlertedAt |-> Or(Get(normalized, "lastAlertedAt"),
                                   Get(existing, "lastAlertedAt"))]))

\* Map.get on a Map kept as the list of its values: the position of the key, or 0
IndexOfId(map, id) ==
  IF \E i \in 1..Len(map) : Get(map[i], "tcgplayerId") = id
  THEN CHOOSE i \in 1..Len(map) : Get(map[i], "tcgplayerId") = id
  ELSE 0

\* Map.set: a known key keeps its place, a new one goes last
MapSet(map, k, item) == IF k = 0 THEN Append(map, item) ELSE [map EXCEPT ![k] = item]

\* one turn of the loop of normalizePortfolios over the raw items
PutWatch(map, k, normalized) ==
  IF Get(normalized, "tcgplayerId").s = <<>> THEN map
  ELSE MapSet(map, k, IF k = 0 THEN normalized ELSE MergeWatch(map[k], normalized))

RECURSIVE WatchMap(_, _)
\* Array.from(map.values()) for the first n raw items
WatchMap(items, n) ==
  IF n = 0 THEN <<>>
  ELSE Only({Only({PutWatch(map, IndexOfId(map, Get(normalized, "tcgplayerId")), normalized) :
                   normalized \in {normalizeWatch(items[n])}}) :
             map \in {WatchMap(items, n - 1)}})

\* the portfolios are written as they are
normalizePortfoliosAsIs(portfolios) == portfolios

normalizePortfolios(portfolios) ==
  IF portfolios.t # "object" THEN Obj(EmptyFields)
  ELSE Obj([userId \in DOMAIN portfolios.f |->
              Arr(WatchMap(ListOr(portfolios.f[userId]), Len(ListOr(portfolios.f[userId]))))])

\* loadPortfolios: what it returns for the content of PORTFOLIO_PATH
loadPortfolios(c) == IF c.kind = "json" THEN normalizePortfolios(c.v) ELSE Obj(EmptyFields)

\* loadPortfolios: a missing file is created as {}
Loaded(f) ==
  IF FileAt(f, PORTFOLIO_PATH).kind = "absent"
  THEN With(f, PORTFOLIO_PATH, JsonFile(Obj(EmptyFields)))
  ELSE f

\* savePortfolios: the rename done, or a throw that is logged and swallowed
savePortfolios(f, portfolios) ==
  {With(f, PORTFOLIO_PATH, JsonFile(normalizePortfolios(portfolios))), f}

\* portfolios[userId] || []
UserItems(portfolios, userId) == ListOr(Get(portfolios, userId))

\* the file is written with the list of userId alone
upsertUserAlone(f, portfolios, userId, next) ==
  savePortfolios(f, Obj([x \in {userId} |-> Arr(next)]))

\* upsertUserItems from the updater's result on: portfolios[userId] = next, save
upsertUserItems(f, portfolios, userId, next) ==
  savePortfolios(f, Obj(With(portfolios.f, userId, Arr(next))))

\* the record handleInventoryAdd sets for p
AddedItem(existing, p, nowIso) ==
  Obj(Spread(IF existing.t = "object" THEN existing.f ELSE EmptyFields,
             [tcgplayerId |-> Str(p.tcgplayerId),
              label |-> IF p.label # <<>> THEN Str(p.label) ELSE Or(Get(existing, "label"), Str(<<>>)),
              addedAt |-> Or(Get(existing, "addedAt"), nowIso)]))

AddOne(map, k, p, nowIso) ==
  MapSet(map, k, AddedItem(IF k = 0 THEN Undef ELSE map[k], p, nowIso))

RECURSIVE AddAll(_, _, _, _)
\* the updater of handleInventoryAdd over the first n items to add
AddAll(current, itemsToAdd, n, nowIso) ==
  IF n = 0 THEN current
  ELSE Only({AddOne(map, IndexOfId(map, Str(itemsToAdd[n].tcgplayerId)), itemsToAdd[n], nowIso) :
             map \in {AddAll(current, itemsToAdd, n - 1, nowIso)}})

\* p.marketPrice != null ? Number(p.marketPrice) : null
CurOf(p) == IF IsNullish(Get(p, "marketPrice")) THEN Null ELSE ToNumber(Get(p, "marketPrice"))

\* the baseline is overwritten by every price
UnlockedBaseline(addedMarketPrice, cur) == cur

\* lock baseline at first successful price fetch
LockedBaseline(addedMarketPrice, cur) ==
  IF IsNullish(addedMarketPrice) \/ ~IsFinite(ToNumber(addedMarketPrice))
  THEN cur ELSE addedMarketPrice

\* existing.addedAt = existing.addedAt || checkedIso, where the baseline is set
BaselineDate(addedMarketPrice, addedAt, checkedIso) ==
  IF IsNullish(addedMarketPrice) \/ ~IsFinite(ToNumber(addedMarketPrice))
  THEN Or(addedAt, checkedIso) ELSE addedAt

\* a check without a price blanks the last price
ObservedBlanking(existing, cur, checkedIso) ==
  Obj(Without(Spread(existing.f, [lastCheckedAt |-> checkedIso, lastMarketPrice |-> cur]),
              "__shouldAlert"))

\* the assignments of persistPricesForUser to existing; alerts are off
Observed(existing, cur, checkedIso) ==
  IF cur.t = "null"
  THEN Obj(Without(With(existing.f, "lastCheckedAt", checkedIso), "__shouldAlert"))
  ELSE Obj(Without(Spread(existing.f,
                          [lastCheckedAt |-> checkedIso,
                           lastMarketPrice |-> cur,
                           addedMarketPrice |->
                             LockedBaseline(Get(existing, "addedMarketPrice"), cur),
                           addedAt |-> BaselineDate(Get(existing, "addedMarketPrice"),
                                                    Get(existing, "addedAt"), checkedIso)]),
                   "__shouldAlert"))

\* prices[item.tcgplayerId] || {}
PriceFor(prices, id) == IF id \in DOMAIN prices THEN prices[id] ELSE Obj(EmptyFields)

\* one turn of the loop of persistPricesForUser: existing = byId.get(id) || item
PersistOne(byId, k, item, prices, checkedIso) ==
  MapSet(byId, k, Observed(IF k = 0 THEN item ELSE byId[k],
                           CurOf(PriceFor(prices, Get(item, "tcgplayerId").s)), checkedIso))

RECURSIVE persistPricesForUser(_, _, _, _, _)
\* the updater of persistPricesForUser over the first n items of the list
persistPricesForUser(current, items, n, prices, checkedIso) ==
  IF n = 0 THEN current
  ELSE Only({PersistOne(byId, IndexOfId(byId, Get(items[n], "tcgplayerId")), items[n], prices,
                        checkedIso) :
             byId \in {persistPricesForUser(current, items, n - 1, prices, checkedIso)}})

\* the one user of the bot
UserId == "u"

watchFile == FileAt(fs, PORTFOLIO_PATH)

\* a bot handler leaves the store and its writers alone
StoreQuiet ==
  UNCHANGED <<now, backups, writerVars, callVars, scriptVars, limVars, lastWriter, ownerDoc,
              commits, snaps, countVars>>

\* ... and is no !inventorynow
BotQuiet == StoreQuiet /\ UNCHANGED lastOnDemandDayKey

\* ... and sends nothing to the price API
BotOnly == BotQuiet /\ UNCHANGED sent

\* !inventoryadd: the arguments as parseAddItems returns them
AddArgs ==
  {<<[tcgplayerId |-> <<"1">>, label |-> <<>>]>>,
   <<[tcgplayerId |-> <<"1">>, label |-> <<"L">>]>>,
   <<[tcgplayerId |-> <<"2">>, label |-> <<>>], [tcgplayerId |-> <<"1">>, label |-> <<>>]>>}

handleInventoryAdd(itemsToAdd) ==
  /\ Len(out) < MaxReplies
  /\ \E portfolios \in {loadPortfolios(watchFile)} :
       fs' \in upsertUserItems(Loaded(fs), portfolios, UserId,
                               AddAll(UserItems(portfolios, UserId), itemsToAdd,
                                      Len(itemsToAdd), IsoOf(now)))
  /\ out' = Append(out, [cmd |-> "add", ids |-> {}])
  /\ UNCHANGED checks
  /\ BotOnly

\* items.filter((it) => !idSet.has(it.tcgplayerId))
Remaining2(items, ids) == SelectSeq(items, LAMBDA it : Get(it, "tcgplayerId").s \notin ids)

\* handleInventoryRemove from the loaded portfolios on
RemoveFrom(portfolios, ids) ==
  IF UserItems(portfolios, UserId) = <<>>
  THEN /\ fs' = Loaded(fs)
       /\ out' = Append(out, [cmd |-> "empty", ids |-> {}])
  ELSE /\ fs' \in savePortfolios(Loaded(fs),
                                 Obj(With(portfolios.f, UserId,
                                          Arr(Remaining2(UserItems(portfolios, UserId), ids)))))
       /\ out' = Append(out, [cmd |-> "remove", ids |-> ids])

handleInventoryRemove(ids) ==
  /\ Len(out) < MaxReplies
  /\ RemoveFrom(loadPortfolios(watchFile), ids)
  /\ UNCHANGED checks
  /\ BotOnly

WatchIds == {<<"1">>, <<"2">>}

\* !inventoryremoveall CONFIRM
handleInventoryRemoveAll ==
  /\ Len(out) < MaxReplies
  /\ \E portfolios \in {loadPortfolios(watchFile)} :
       fs' \in savePortfolios(Loaded(fs), Obj(With(portfolios.f, UserId, Arr(<<>>))))
  /\ out' = Append(out, [cmd |-> "remove", ids |-> WatchIds])
  /\ UNCHANGED checks
  /\ BotOnly

\* runPriceCheckForUser, handleInventoryStats or the daily cron up to the
\* await of fetchCardPrices: the list is loaded
CheckStarts ==
  /\ Len(out) + Cardinality(checks) < MaxReplies
  /\ Cardinality(checks) < MaxChecks
  /\ fs' = Loaded(fs)
  /\ \E list \in {UserItems(loadPortfolios(watchFile), UserId)} :
       IF list = <<>>
       THEN /\ out' = Append(out, [cmd |-> "empty", ids |-> {}])
            /\ UNCHANGED checks
       ELSE /\ checks' = checks \cup {[list |-> list]}
            /\ UNCHANGED out
  /\ BotOnly

\* card?.tcgplayerId ?? card?.tcgplayer_id ?? card?.tcgPlayerId ?? null
RawId(card) ==
  Coalesce(Coalesce(Coalesce(Get(card, "tcgplayerId"), Get(card, "tcgplayer_id")),
                    Get(card, "tcgPlayerId")), Null)

\* variants.find((v) => v && v.condition === "Sealed") || variants[0]
BotChosen(variants) ==
  Or(FirstOf(variants, IsSealed), IF variants = <<>> THEN Undef ELSE variants[1])

\* chosen?.price != null ? Number(chosen.price) : null
BotPrice(price) == IF IsNullish(price) THEN Null ELSE ToNumber(price)

\* !(!Number.isFinite(price) || price <= 0 || price > 10000)
Sane(price) == IsFinite(price) /\ price.m > 0 /\ price.m <= 10000 * Unit

\* idToPrice[id] for the price of the chosen variant
EntryFor(card, price) ==
  Obj([marketPrice |-> IF Sane(price) THEN price ELSE Null,
       setName |-> Or(Or(Get(card, "set_name"), Get(card, "setName")), Null),
       name |-> Or(Get(card, "name"), Null)])

BotEntry(card) ==
  EntryFor(card, BotPrice(Get(BotChosen(ListOr(Get(card, "variants"))), "price")))

\* the position of the last card of the list with the id
LastWithId(cards, id) ==
  CHOOSE i \in 1..Len(cards) :
    /\ Truthy(RawId(cards[i])) /\ JsString(RawId(cards[i])) = id
    /\ \A j \in (i + 1)..Len(cards) :
         ~(Truthy(RawId(cards[j])) /\ JsString(RawId(cards[j])) = id)

\* the loop over the cards: idToPrice[id] is assigned for every card with an id
IdToPrice(cards) ==
  [id \in {JsString(RawId(cards[i])) : i \in {j \in 1..Len(cards) : Truthy(RawId(cards[j]))}} |->
     BotEntry(cards[LastWithId(cards, id)])]

\* Array.isArray(result) ? result : result?.data || []; a request that failed
\* gives no cards
BotCardsOf(result) ==
  IF result.t = "thrown" THEN <<>>
  ELSE IF result.t = "array" THEN result.l
  ELSE ListOr(Or(Get(result, "data"), Arr(<<>>)))

\* fetchCardPrices for ids that fit one batch, from the response on
fetchCardPrices(result) == IdToPrice(BotCardsOf(result))

\* a card of the price API's response to the bot
BotCard(id, kind) ==
  CASE kind = "ten" ->
         Obj([tcgplayerId |-> Str(id), variants |-> Arr(<<Variant("Opened", IntNum(10))>>)])
    [] kind = "sealed" ->
         Obj([tcgplayerId |-> Str(id), name |-> Str(<<"card">>),
              variants |-> Arr(<<Variant("Opened", IntNum(5)), Variant("Sealed", IntNum(12))>>)])
    [] kind = "later" ->
         Obj([tcgplayerId |-> Str(id),
              variants |-> Arr(<<Variant("Opened", Null), Variant("Opened", IntNum(10))>>)])
    [] kind = "huge" ->
         Obj([tcgplayerId |-> Str(id), variants |-> Arr(<<Variant("Sealed", IntNum(20000))>>)])
    [] OTHER ->
         Obj([tcgplayerId |-> Str(id), variants |-> Arr(<<Variant("Opened", Null)>>)])

BotKinds == {"ten", "sealed", "none"}

\* what the price API may answer to the bot's request for the ids 1 and 2
BotResults ==
  {Thrown,
   Obj([data |-> Arr(<<BotCard(<<"1">>, "ten"), BotCard(<<"2">>, "sealed")>>)]),
   Arr(<<BotCard(<<"1">>, "later"), BotCard(<<"2">>, "huge")>>),
   Arr(<<BotCard(<<"1">>, "huge"), BotCard(<<"2">>, "later")>>)}
    \cup {Arr(<<BotCard(<<"1">>, k1), BotCard(<<"2">>, k2)>>) : k1, k2 \in BotKinds}

\* list.map((i) => i.tcgplayerId), each as String(id).trim()
IdsOf(list) == [i \in 1..Len(list) |-> Trim(JsString(Get(list[i], "tcgplayerId")))]

\* Array.from(new Set(...filter(Boolean))): the first occurrences of the ids
UniqueIds(ids) ==
  KeysOf(ids, {i \in 1..Len(ids) : ids[i] # <<>> /\ \A j \in 1..(i - 1) : ids[j] # ids[i]})

\* the requests of one fetchCardPrices call: a fetch for each slice of
\* BATCH_SIZE lookups, with no call of a rate limiter before it
BotRequests(batches, failed, at, n) ==
  [k \in 1..Len(batches) |->
     [batch |-> batches[k], at |-> at, threw |-> failed, run |-> [by |-> "bot", n |-> n]]]

\* the check from the prices on: the requests of fetchCardPrices and their
\* responses, persistPricesForUser, then the DM
CheckEndsWith(c, result, reply) ==
  /\ c \in checks
  /\ checks' = checks \ {c}
  /\ \E portfolios \in {loadPortfolios(watchFile)} :
       fs' \in upsertUserItems(Loaded(fs), portfolios, UserId,
                               persistPricesForUser(UserItems(portfolios, UserId), c.list,
                                                    Len(c.list), fetchCardPrices(result),
                                                    IsoOf(now)))
  /\ out' = Append(out, reply)
  /\ sent' = sent \o BotRequests(chunkArray(UniqueIds(IdsOf(c.list)), BATCH_SIZE),
                                 result.t = "thrown", now, Len(sent))
  /\ BotQuiet

CheckEnds(c, result) == CheckEndsWith(c, result, [cmd |-> "prices", ids |-> {}])

\* a file left by an earlier version: an id twice, once under the key id
LegacyWatch ==
  JsonFile(Obj([u |-> Arr(<<Obj([tcgplayerId |-> Str(<<"1">>), addedMarketPrice |-> IntNum(10)]),
                           Obj([id |-> IntNum(1), label |-> Str(<<"L">>),
                                addedMarketPrice |-> IntNum(12)])>>)]))

InitWatch ==
  /\ now = 0
  /\ fs \in {NoFiles, [x \in {PORTFOLIO_PATH} |-> LegacyWatch]}
  /\ backups = {}
  /\ IdleWriters
  /\ Quiet
  /\ ownerDoc = Absent
  /\ lastInput = Undef
  /\ lastRead = NoRead

NextWatch ==
  \/ \E itemsToAdd \in AddArgs : handleInventoryAdd(itemsToAdd)
  \/ \E ids \in {{<<"1">>}, {<<"2">>, <<"3">>}} : handleInventoryRemove(ids)
  \/ handleInventoryRemoveAll
  \/ CheckStarts
  \/ \E c \in checks : \E result \in BotResults : CheckEnds(c, result)
  \/ \E d \in {MsPerSec} : Tick(d)

SpecWatch == InitWatch /\ [][NextWatch]_vars

(***************************************************************************)
(* discordBot: the commands of one user over a file that holds the         *)
(* watchlist of another                                                    *)
(***************************************************************************)
\* the list of the other user: as a save leaves it, or written by other means
OtherLists ==
  {Arr(<<Obj([tcgplayerId |-> Str(<<"1">>), label |-> Str(<<"V">>), addedAt |-> IsoOf(0),
              addedMarketPrice |-> IntNum(7), lastMarketPrice |-> IntNum(8)]),
         Obj([tcgplayerId |-> Str(<<"5">>), label |-> Str(<<>>)])>>),
   Arr(<<Obj([tcgplayerId |-> Str(<<"1">>), addedMarketPrice |-> IntNum(10)]),
         Obj([id |-> IntNum(1), label |-> Str(<<"L">>), note |-> Str(<<"x">>)])>>)}

\* the list of the user who gives the commands
OwnLists ==
  {Arr(<<>>),
   Arr(<<Obj([tcgplayerId |-> Str(<<"1">>), label |-> Str(<<>>)]),
         Obj([tcgplayerId |-> Str(<<"2">>), label |-> Str(<<"M">>)])>>)}

InitOthers ==
  /\ now = 0
  /\ fs \in {[x \in {PORTFOLIO_PATH} |-> JsonFile(Obj([u |-> own, v |-> other]))] :
             own \in OwnLists, other \in OtherLists}
  /\ backups = {}
  /\ IdleWriters
  /\ Quiet
  /\ ownerDoc = Absent
  /\ lastInput = Undef
  /\ lastRead = NoRead

NextOthers ==
  \/ handleInventoryAdd(<<[tcgplayerId |-> <<"1">>, label |-> <<"L">>]>>)
  \/ handleInventoryRemove({<<"1">>})
  \/ handleInventoryRemoveAll
  \/ CheckStarts
  \/ \E c \in checks :
       \E result \in {Thrown} \cup {Arr(<<BotCard(<<"1">>, kind)>>) : kind \in BotKinds} :
         CheckEnds(c, result)

SpecOthers == InitOthers /\ [][NextOthers]_vars

(***************************************************************************)
(* discordBot: !inventorynow and its daily allowance                       *)
(***************************************************************************)
\* process.env.NO_COOLDOWN_USER_IDS, one id listed
NO_COOLDOWN_USER_IDS == {"a"}

\* the offset of ON_DEMAND_TZ (America/New_York) from UTC in January 1970
EasternOffsetMs == 5 * 60 * 60 * 1000

MaxNowMs == 32400000

isNoCooldownUser(userId) == userId \in NO_COOLDOWN_USER_IDS

\* the YYYY-MM-DD of the instant in Eastern time, as the number of the day
getEasternDayKey(t) == (t - EasternOffsetMs) \div ONE_DAY_MS

\* a test of the allowance that always passes
AllowedAlways(lastKey, todayKey) == TRUE

\* !(lastKey === todayKey), with lastKey = lastOnDemandDayKey[userId] || null
Allowed(lastKey, todayKey) == lastKey # todayKey

\* lastOnDemandDayKey[userId] || null
LastKeyOf(userId) ==
  IF userId \in DOMAIN lastOnDemandDayKey THEN IntNum(lastOnDemandDayKey[userId]) ELSE Null

\* the messages: from a plain user, from a listed user, from a guild administrator
NowMessages ==
  {[author |-> UserId, admin |-> FALSE], [author |-> "a", admin |-> FALSE],
   [author |-> "g", admin |-> TRUE]}

\* the call of runPriceCheckForUser up to the await of fetchCardPrices, or
\* its answer for an empty list
NowRuns(call) ==
  /\ fs' = Loaded(fs)
  /\ \E list \in {UserItems(loadPortfolios(watchFile), call.user)} :
       IF list = <<>>
       THEN /\ out' = Append(out, [cmd |-> "empty", ids |-> {}, now |-> call])
            /\ UNCHANGED checks
       ELSE /\ checks' = checks \cup {[list |-> list, now |-> call]}
            /\ UNCHANGED out

\* handleInventoryNow up to its await
handleInventoryNow(message) ==
  /\ Len(out) + Cardinality(checks) < MaxReplies
  /\ \E call \in {[user |-> message.author, at |-> now, n |-> Len(out) + Cardinality(checks)]} :
       IF message.admin \/ isNoCooldownUser(message.author)
       THEN NowRuns(call) /\ UNCHANGED lastOnDemandDayKey
       ELSE IF Allowed(LastKeyOf(message.author), IntNum(getEasternDayKey(now)))
       THEN /\ lastOnDemandDayKey' = With(lastOnDemandDayKey, message.author, getEasternDayKey(now))
            /\ NowRuns(call)
       ELSE /\ out' = Append(out, [cmd |-> "cooldown", ids |-> {}, now |-> call])
            /\ UNCHANGED <<fs, checks, lastOnDemandDayKey>>
  /\ UNCHANGED sent
  /\ StoreQuiet

\* handleInventoryNow from the prices on: they are persisted and sent
NowEnds(c, result) == CheckEndsWith(c, result, [cmd |-> "prices", ids |-> {}, now |-> c.now])

\* hours pass
Elapse(d) ==
  /\ now + d <= MaxNowMs
  /\ now' = now + d
  /\ UNCHANGED <<fs, backups, writerVars, callVars, scriptVars, limVars, histVars, botVars, countVars>>

NextNow ==
  \/ \E message \in NowMessages : handleInventoryNow(message)
  \/ \E c \in checks : \E result \in {Thrown, Arr(<<BotCard(<<"1">>, "ten")>>)} : NowEnds(c, result)
  \/ \E d \in {3 * 60 * 60 * 1000} : Elapse(d)

SpecNow == InitWatch /\ [][NextNow]_vars

(***************************************************************************)
(* The bot's price lines: calcDelta and formatPriceLine                    *)
(***************************************************************************)
MaxLines == 1

\* a quotient of two numbers, kept exact: n / d
Ratio(n, d) == [t |-> "ratio", n |-> n, d |-> d]

\* the percentage taken of the current price instead of the previous one
PctOfCurrent(c, p) == IF c # 0 THEN Ratio((c - p) * 100, c) ELSE Null

\* let pct = null; if (p !== 0) pct = (delta / p) * 100
PctOf(c, p) == IF p # 0 THEN Ratio((c - p) * 100, p) ELSE Null

calcDelta(cur, prev) ==
  IF IsNullish(cur) \/ IsNullish(prev) THEN Null
  ELSE IF ~IsFinite(ToNumber(cur)) \/ ~IsFinite(ToNumber(prev)) THEN Null
  ELSE Obj([delta |-> Num(ToNumber(cur).m - ToNumber(prev).m),
            pct |-> PctOf(ToNumber(cur).m, ToNumber(prev).m)])

\* Number.isFinite(Number(x)) ? Number(x) : null
FiniteOrNull(x) == Only({IF IsFinite(n) THEN n ELSE Null : n \in {ToNumber(x)}})

\* Number(pct).toFixed(2): the nearest hundredth, in thousandths
Hundredths(n, d) == (n \div d) * 100 + (2 * (n % d) * 100 + d) \div (2 * d)

PctFixed(r) ==
  IF (r.n >= 0) = (r.d > 0)
  THEN Hundredths(Abs(r.n), Abs(r.d)) * 10
  ELSE -(Hundredths(Abs(r.n), Abs(r.d)) * 10)

\* the text after "since last" or "since added": the amount and the percentage
\* to two decimals, the amount alone, or N/A
DeltaText(d) ==
  IF d.t = "null" THEN Null
  ELSE Obj([delta |-> Num(RoundCents(Get(d, "delta").m)),
            pct |-> IF Get(d, "pct").t = "null" THEN Null ELSE Num(PctFixed(Get(d, "pct")))])

\* formatPriceLine from the current price on
LineFor(cur, item) ==
  [market |-> cur,
   sinceLast |-> DeltaText(calcDelta(cur, FiniteOrNull(Get(item, "lastMarketPrice")))),
   sinceAdded |-> DeltaText(calcDelta(cur, FiniteOrNull(Get(item, "addedMarketPrice"))))]

formatPriceLine(item, prices) ==
  LineFor(CurOf(PriceFor(prices, Get(item, "tcgplayerId").s)), item)

\* the numbers a watched item may hold, and some that are none
PastPrices == {Undef, Null, IntNum(0), IntNum(100), IntNum(110), Str(<<"x">>)}

LineItems ==
  {Obj([tcgplayerId |-> Str(<<"1">>), lastMarketPrice |-> last, addedMarketPrice |-> added]) :
   last \in PastPrices, added \in PastPrices}

\* idToPrice: no entry for the id, no price, or a price
LinePrices ==
  {[id \in {} |-> Null]}
    \cup {[id \in {<<"1">>} |-> Obj([marketPrice |-> m])] :
          m \in {Null, IntNum(0), IntNum(108), IntNum(110)}}

\* one call of calcDelta
CalcDelta(cur, prev) ==
  /\ Len(out) < MaxLines
  /\ out' = Append(out, [cur |-> cur, prev |-> prev, result |-> calcDelta(cur, prev)])
  /\ UNCHANGED <<envVars, writerVars, callVars, scriptVars, limVars, lastWriter, ownerDoc,
                 commits, snaps, sent, countVars, botVars>>

\* one call of formatPriceLine
FormatLine(item, prices) ==
  /\ Len(out) < MaxLines
  /\ out' = Append(out, [item |-> item, prices |-> prices, line |-> formatPriceLine(item, prices)])
  /\ UNCHANGED <<envVars, writerVars, callVars, scriptVars, limVars, lastWriter, ownerDoc,
                 commits, snaps, sent, countVars, botVars>>

NextDelta ==
  \/ \E cur \in PastPrices \cup {IntNum(108)} : \E prev \in PastPrices : CalcDelta(cur, prev)
  \/ \E item \in LineItems : \E prices \in LinePrices : FormatLine(item, prices)

SpecDelta == InitNorm /\ [][NextDelta]_vars

(***************************************************************************)
(* discordBot: the report of a price check and what it persists            *)
(***************************************************************************)
\* the lines are built from the list as persistPricesForUser stored it
ReportItemsAfter(list, stored) == stored

\* buildPriceLines(list, prices): the list is the one loaded before the await
ReportItems(list, stored) == list

\* (items || []).map((it) => formatPriceLine(it, prices))
buildPriceLines(items, prices) == [i \in 1..Len(items) |-> formatPriceLine(items[i], prices)]

\* runPriceCheckForUser up to the await of fetchCardPrices
ReportStarts ==
  /\ Len(out) + Cardinality(checks) < MaxReplies
  /\ Cardinality(checks) < MaxChecks
  /\ fs' = Loaded(fs)
  /\ \E list \in {UserItems(loadPortfolios(watchFile), UserId)} :
       IF list = <<>>
       THEN /\ out' = Append(out, [cmd |-> "empty", ids |-> {}])
            /\ UNCHANGED checks
       ELSE /\ checks' = checks \cup {[list |-> list, n |-> Len(out), k |-> Cardinality(checks)]}
            /\ UNCHANGED out
  /\ BotOnly

\* runPriceCheckForUser from the prices on; the reply is kept with the index
\* of the reply that preceded the start of the check, and with what the save did
ReportEnds(c, result) ==
  CheckEndsWith(c, result,
                [cmd |-> "prices", ids |-> {}, n |-> c.n,
                 lines |-> buildPriceLines(ReportItems(c.list,
                                                       UserItems(loadPortfolios(FileAt(fs', PORTFOLIO_PATH)),
                                                                 UserId)),
                                           fetchCardPrices(result)),
                 saved |-> fs' # Loaded(fs)])

NextReport ==
  \/ \E itemsToAdd \in {<<[tcgplayerId |-> <<"1">>, label |-> <<>>]>>} : handleInventoryAdd(itemsToAdd)
  \/ \E ids \in {{<<"1">>}} : handleInventoryRemove(ids)
  \/ ReportStarts
  \/ \E c \in checks :
       \E result \in {Thrown} \cup {Arr(<<BotCard(<<"1">>, kind)>>) : kind \in BotKinds \cup {"huge"}} :
         ReportEnds(c, result)

SpecReport == InitWatch /\ [][NextReport]_vars

(***************************************************************************)
(* The choice of a card's variant and of its price, on arbitrary cards     *)
(***************************************************************************)
MaxPicks == 1

\* the prices a variant may carry: none, 10, 0, 20000, "12", "x", 0.004
PricePool ==
  {Null, IntNum(10), IntNum(0), IntNum(20000), Str(<<"1", "2">>), Str(<<"x">>), Num(4)}

VariantPool == {Null} \cup {Variant(c, price) : c \in {"Sealed", "Opened"}, price \in PricePool}

\* the cards with up to two variants, and one without a variants list
CardPool ==
  {Obj([tcgplayerId |-> Str(<<"1">>)])}
    \cup {Obj([tcgplayerId |-> Str(<<"1">>), variants |-> Arr(l)]) :
          l \in {<<>>} \cup {<<v>> : v \in VariantPool}
                  \cup {<<v, w>> : v \in VariantPool, w \in VariantPool}}

\* the price and the reason an item of the inventory is left with
Outcome(by, card, chosen, item) ==
  [by |-> by, card |-> card, chosen |-> chosen,
   price |-> IF "priceError" \in DOMAIN item.f THEN Null ELSE Get(item, "marketPrice"),
   reason |-> Or(Get(item, "priceError"), Null)]

\* updatePrices.js: the body of the loop over the cards, for one item
PickForRefresh(card) ==
  /\ Len(out) < MaxPicks
  /\ out' = Append(out, Outcome("refresh", card, ChooseVariant(card),
                                Priced(Obj(Item(<<"A">>, <<"1">>, 1)), card,
                                       Get(ChooseVariant(card), "price"), now)))
  /\ UNCHANGED <<envVars, writerVars, callVars, scriptVars, limVars, lastWriter, ownerDoc,
                 commits, snaps, sent, countVars, botVars>>

\* the bot: the body of the loop over the cards of fetchCardPrices
PickForBot(card) ==
  /\ Len(out) < MaxPicks
  /\ out' = Append(out, [by |-> "bot", card |-> card,
                         chosen |-> BotChosen(ListOr(Get(card, "variants"))),
                         price |-> Get(BotEntry(card), "marketPrice"),
                         reason |-> Null])
  /\ UNCHANGED <<envVars, writerVars, callVars, scriptVars, limVars, lastWriter, ownerDoc,
                 commits, snaps, sent, countVars, botVars>>

NextPick ==
  \/ \E card \in CardPool : PickForRefresh(card)
  \/ \E card \in CardPool : PickForBot(card)

SpecPick == InitNorm /\ [][NextPick]_vars

(***************************************************************************)
(* Properties of the store calls                                           *)
(***************************************************************************)
StoreItems == IF store.kind = "json" THEN Get(store.v, "items") ELSE Arr(<<>>)

IsCents(v) == v.t = "number" /\ v.m % 10 = 0

IsCount(v) == v.t = "number" /\ v.m >= 0 /\ v.m % Unit = 0

IsNormalizedItem(it) ==
  /\ it.t = "object"
  /\ DOMAIN it.f \subseteq ALLOWED_ITEM_KEYS
  /\ \/ (Get(it, "name").t = "string" /\ Trim(Get(it, "name").s) # <<>>)
     \/ (Get(it, "tcgPlayerId").t = "string" /\ Trim(Get(it, "tcgPlayerId").s) # <<>>)
  /\ IsCount(Get(it, "quantity"))
  /\ \A k \in {"marketPrice", "yourPrice"} : k \in DOMAIN it.f => IsCents(it.f[k])

\* C9: every item of a file written by writeInventoryFile is fully normalized
\* (allow-listed keys only, a non-empty name or tcgPlayerId, a non-negative
\* integer quantity, money absent or in whole cents), whatever was passed,
\* and totalItems is the number of persisted items.
C9_WrittenItemsNormalized ==
  store.kind = "json" =>
    /\ StoreItems.t = "array"
    /\ \A i \in 1..Len(StoreItems.l) : IsNormalizedItem(StoreItems.l[i])
    /\ Get(store.v, "totalItems") = IntNum(Len(StoreItems.l))

\* a write whose input held a row that is not normalized, and that was kept
C9_Witness ==
  /\ store.kind = "json"
  /\ lastInput.t = "array"
  /\ Len(StoreItems.l) > 0
  /\ \E i \in 1..Len(lastInput.l) : ~IsNormalizedItem(lastInput.l[i])
  /\ \E i \in 1..Len(lastInput.l) : lastInput.l[i].t # "object"

\* C10: the items read back after writeInventoryFile(path, items) are
\* normalizeItems(items), and normalizing them again changes nothing.
C10_RoundTrip ==
  lastRead # NoRead =>
    /\ lastRead.items = normalizeItems(lastInput)
    /\ normalizeItems(Arr(lastRead.items)) = normalizeItems(lastInput)

\* a read after a write of a price that rounding changes
C10_Witness ==
  /\ lastRead # NoRead
  /\ lastInput.t = "array"
  /\ \E i \in 1..Len(lastInput.l) : Get(lastInput.l[i], "marketPrice") = Num(12345)
  /\ Len(lastRead.items) = 1
  /\ Get(lastRead.items[1], "marketPrice") = Num(12350)

(***************************************************************************)
(* Properties of the write in steps, of the scripts and of the admin save  *)
(***************************************************************************)
\* C1: the store path changes only in the rename of a writer, and then to the
\* complete text that writer prepared; at no step of a write (backup copy,
\* prune, temporary-file write, rename) does it hold a partial text, so a
\* reader sees the complete earlier content or the complete new one.
C1_OnlyRenameModifiesStore ==
  [][/\ store'.kind # "torn"
     /\ store' # store =>
          \E p \in Procs : pc[p] = "rename" /\ pc'[p] # "rename" /\ store' = wdoc[p]]_vars

C1_Witness ==
  \E p \in Procs :
    /\ commits > wpre[p].commits
    /\ wpre[p].content.kind = "json"
    /\ store = wdoc[p]
    /\ store # wpre[p].content

\* C2: when a writer has stopped after creating its temporary file and before
\* the rename (no other writer having committed since its write began), the
\* store path holds what it held before the write, readInventoryFile returns
\* the pre-write items, and the writer's only file next to the store file is
\* that temporary file.
C2_CrashBeforeRename ==
  \A p \in Procs :
    (pc[p] = "dead" /\ wtmp[p] # <<>> /\ commits = wpre[p].commits) =>
      /\ store = wpre[p].content
      /\ readInventoryFile(store) = readInventoryFile(wpre[p].content)
      /\ {x \in DOMAIN fs \ {INVENTORY_PATH} : x[2] = p} = {wtmp[p]}

C2_Witness ==
  \E p \in Procs :
    /\ pc[p] = "dead"
    /\ wtmp[p] # <<>>
    /\ commits = wpre[p].commits
    /\ wpre[p].content.kind = "json"
    /\ FileAt(fs, wtmp[p]) = wdoc[p]
    /\ wdoc[p] # wpre[p].content

\* name, tcgPlayerId and quantity of every record, in order
QuantityRows(items) ==
  [i \in 1..Len(items) |->
     <<Get(items[i], "name"), Get(items[i], "tcgPlayerId"), Get(items[i], "quantity")>>]

\* C4 as stated: after a refresh run's write every record has the quantity most
\* recently saved by the admin path, also when an admin save was committed
\* between the run's read and its write.
C4_QuantityIsLatestSaved ==
  lastWriter = "update" =>
    QuantityRows(loadInventoryItems(store)) = QuantityRows(loadInventoryItems(ownerDoc))

\* C4, amended: after a refresh run's write every record has the quantity the
\* run read from the store at its start; an admin save committed between that
\* read and the write is overwritten.
C4_QuantityIsAsRead ==
  lastWriter = "update" =>
    QuantityRows(loadInventoryItems(store)) = QuantityRows(run.read)

C4_Witness ==
  /\ lastWriter = "update"
  /\ ownerDoc # wpre[Script].content
  /\ QuantityRows(loadInventoryItems(ownerDoc)) # QuantityRows(run.read)
  /\ \E i \in 1..Len(run.read) :
       Get(loadInventoryItems(store)[i], "marketPrice") # Get(run.read[i], "marketPrice")

\* the record has the identity of some record of the items
IsAmong(it, items) ==
  \E i \in 1..Len(items) :
    /\ Get(items[i], "tcgPlayerId") = Get(it, "tcgPlayerId")
    /\ Get(items[i], "name") = Get(it, "name")

AllAmong(before, after) == \A i \in 1..Len(before) : IsAmong(before[i], after)

\* C5: a refresh never deletes an item: after the commit of a pull (the first
\* half of updateAll) every item the store held when the pull's write began
\* is still in the store.
C5_PullKeepsItems ==
  lastWriter = "pull" =>
    AllAmong(loadInventoryItems(wpre[Script].content), loadInventoryItems(store))

\* the records agree on every persisted key outside the given ones
SameOutside(keys, before, after) ==
  /\ Len(before) = Len(after)
  /\ \A i \in 1..Len(before) :
       \A k \in ALLOWED_ITEM_KEYS \ keys : Get(before[i], k) = Get(after[i], k)

\* C6 as stated: a refresh run changes only marketPrice, yourPrice and
\* lastUpdated among the persisted fields of the records it read (baseline
\* fields and priceError are not persisted).
C6_OnlyPriceFields ==
  lastWriter = "update" =>
    SameOutside({"marketPrice", "yourPrice", "lastUpdated"},
                run.read, loadInventoryItems(store))

\* C6, amended: a refresh run changes, on the records it read, only
\* marketPrice, yourPrice, lastUpdated, setName and imageUrl; quantity, name,
\* tcgPlayerId, tcgPlayerUrl and game are written as read.
C6_OnlyPriceSetImage ==
  lastWriter = "update" =>
    SameOutside({"marketPrice", "yourPrice", "lastUpdated", "setName", "imageUrl"},
                run.read, loadInventoryItems(store))

C6_Witness ==
  /\ lastWriter = "update"
  /\ \E i \in 1..Len(run.read) :
       /\ Get(run.read[i], "setName") = Str(<<"S">>)
       /\ Get(loadInventoryItems(store)[i], "setName") = Str(<<"S2">>)
       /\ Get(loadInventoryItems(store)[i], "marketPrice") # Get(run.read[i], "marketPrice")
       /\ Get(loadInventoryItems(store)[i], "imageUrl") # Undef

\* no two records with the same tcgPlayerId, no two records without one with
\* the same case-folded name
UniqueIdentity(items) ==
  \A i \in 1..Len(items) : \A j \in (i + 1)..Len(items) :
    IF Truthy(Get(items[i], "tcgPlayerId")) /\ Truthy(Get(items[j], "tcgPlayerId"))
    THEN Get(items[i], "tcgPlayerId") # Get(items[j], "tcgPlayerId")
    ELSE \/ Truthy(Get(items[i], "tcgPlayerId"))
         \/ Truthy(Get(items[j], "tcgPlayerId"))
         \/ ToLower(Get(items[i], "name").s) # ToLower(Get(items[j], "name").s)

\* C8: identity is unique in every persisted inventory.
C8_IdentityUnique == UniqueIdentity(loadInventoryItems(store))

(***************************************************************************)
(* Properties of the backups and of the rate limiters                      *)
(***************************************************************************)
\* the last n elements of a sequence
LastN(q, n) == SubSeq(q, Len(q) - n + 1, Len(q))

\* C7: once MAX_BACKUPS writes or more have found a file to back up, exactly
\* MAX_BACKUPS backups exist, and they hold what the MAX_BACKUPS most recent
\* of these writes found.
C7_BackupsAreTheLatest ==
  Len(snaps) >= MAX_BACKUPS =>
    /\ Cardinality(backups) = MAX_BACKUPS
    /\ {b.content : b \in backups}
         = {LastN(snaps, MAX_BACKUPS)[i].content : i \in 1..MAX_BACKUPS}

\* the calls granted in the 60 seconds that end with the i-th grant
InWindow(g, i) == {j \in 1..Len(g) : g[j] <= g[i] /\ g[i] - g[j] < WINDOW_MS}

\* C3: no sliding 60-second window holds more granted calls than the limit,
\* for the batch limiter and for the single-call limiter, however the awaited
\* calls are spaced.
C3_WindowBound ==
  \A i \in 1..Len(grants) : Cardinality(InWindow(grants, i)) <= CallsPerMinute(job)

C3_Witness ==
  /\ job = "batch"
  /\ Len(grants) > MAX_BATCH_CALLS_PER_MIN
  /\ grants[MAX_BATCH_CALLS_PER_MIN + 1] - grants[1] = WINDOW_MS
  /\ Cardinality(InWindow(grants, MAX_BATCH_CALLS_PER_MIN + 1)) = MAX_BATCH_CALLS_PER_MIN

\* the result for a file without items
NothingRead == [meta |-> [schemaVersion |-> Num(0), updatedAt |-> Null], items |-> <<>>]

\* the result of a read of a parsed file, by the shape of the file
ReadAs(result, v) ==
  IF v.t = "array" THEN result.meta.schemaVersion = Num(0) /\ result.items = normalizeItems(v)
  ELSE IF Get(v, "items").t = "array"
  THEN /\ result.items = normalizeItems(Get(v, "items"))
       /\ result.meta.schemaVersion.t = "number"
       /\ Get(v, "schemaVersion").t = "number" =>
            result.meta.schemaVersion = Get(v, "schemaVersion")
  ELSE result = NothingRead

\* C16: readInventoryFile returns a result for every file: no items and
\* schemaVersion 0 for a missing file, for malformed JSON and for JSON that
\* is neither a list nor an object with an items list; the normalized items
\* with schemaVersion 0 for a bare list; the normalized items with the
\* file's schemaVersion for an envelope.
C16_ReadIsTolerant ==
  lastRead # NoRead =>
    IF store.kind = "json" THEN ReadAs(lastRead, store.v) ELSE lastRead = NothingRead

\* an envelope of version 2 with a row that is dropped and one that is kept
C16_Witness ==
  /\ store.kind = "json"
  /\ Get(store.v, "schemaVersion") = IntNum(2)
  /\ Len(Get(store.v, "items").l) = 2
  /\ lastRead # NoRead
  /\ Len(lastRead.items) = 1
  /\ lastRead.meta.schemaVersion = IntNum(2)

(***************************************************************************)
(* Properties of the admin save                                            *)
(***************************************************************************)
\* the latest answer
LastOut == out[Len(out)]

Answered(status) == out # <<>> /\ "status" \in DOMAIN LastOut /\ LastOut.status = status

\* the rows of the latest body that the handler kept
KeptRows == SelectSeq(LastOut.body.l, RowKept)

\* C11: after an admin save that answered 200, every record saved for a row
\* with a pricingPercent override carries that override (clamped to [1, 200])
\* when the store is read back.
C11_OverridePersisted ==
  Answered(200) =>
    \A i \in 1..Len(KeptRows) :
      RowPricingPercent(KeptRows[i]) # Null =>
        Get(loadInventoryItems(store)[i], "pricingPercent") = RowPricingPercent(KeptRows[i])

\* the quantity of the record a row addresses, 0 if there is none
QtyOf(existing) == IF Truthy(existing) THEN ToNumber(Get(existing, "quantity")).m ELSE 0

\* the row's quantity is greater than the quantity in the pre-save snapshot
Increased(row, old) ==
  QtyOf(ExistingFor(RowName(row), RowId(row), old)) < RowQuantity(row).m

\* the response names the record saved for the row, with its new quantity
Announced(row, old) ==
  \E j \in 1..Len(LastOut.newItems) : LastOut.newItems[j] = EventOf(RowItem(row, old))

\* C15: after a save, an event (identity and new quantity) is emitted for
\* exactly the records whose quantity is greater than in the pre-save
\* snapshot.
C15_EventPerIncrease ==
  Answered(200) =>
    \A old \in {loadInventoryItems(wpre[Server].content)} :
      \A i \in 1..Len(KeptRows) : Increased(KeptRows[i], old) <=> Announced(KeptRows[i], old)

\* the events are emitted for increases only: none for a record whose
\* quantity did not increase
EventsAreIncreases ==
  Answered(200) =>
    \A old \in {loadInventoryItems(wpre[Server].content)} :
      \A i \in 1..Len(KeptRows) : Announced(KeptRows[i], old) => Increased(KeptRows[i], old)

(***************************************************************************)
(* Properties of a save that fails                                         *)
(***************************************************************************)
\* the step gives an answer
Answers == Len(out') = Len(out) + 1

\* the store file is as before the step
StoreKept == FileAt(fs', INVENTORY_PATH) = store /\ commits' = commits

\* what the step's answer says of the save: 500 or exit code 1 with the store
\* as it was, 200 with the write committed
AnswerIsTrue(r) ==
  IF "exit" \in DOMAIN r THEN r.exit = 1 /\ StoreKept
  ELSE IF r.status = 500 THEN StoreKept
  ELSE IF r.status = 200 THEN commits' = commits + 1 /\ FileAt(fs', INVENTORY_PATH).kind = "json"
  ELSE StoreKept

\* the refresh leaves its write without exit code only by the rename
WriteEnds ==
  pc[Script] \in {"tmpOpen", "tmpWrite", "rename"} /\ pc'[Script] = "idle"
    => commits' = commits + 1 \/ (Answers /\ "exit" \in DOMAIN out'[Len(out')])

\* C17: a failed write of the temporary file or a failed rename leaves the
\* store file as it was and is reported by the caller: the admin save answers
\* 500, the refresh exits with code 1; 200 is answered only for a committed
\* write.
C17_FailureReported == [][WriteEnds /\ (Answers => AnswerIsTrue(out'[Len(out')]))]_vars

\* both callers have reported a failed write, over a store that exists
C17_Witness ==
  /\ store.kind = "json"
  /\ \E i \in 1..Len(out) : "status" \in DOMAIN out[i] /\ out[i].status = 500
  /\ \E i \in 1..Len(out) : "exit" \in DOMAIN out[i]
  /\ DOMAIN fs # {INVENTORY_PATH}

(***************************************************************************)
(* Properties of a refresh run                                             *)
(***************************************************************************)
\* the run's write is committed
RunSaved == lastWriter = "update" /\ pc[Script] = "idle"

PriceKeys == {"marketPrice", "yourPrice", "lastUpdated"}

\* each record the run gave a priceError is stored with it, and with the
\* price fields read
ErrorsStored(stored) ==
  \A i \in 1..Len(run.inventory) :
    "priceError" \in DOMAIN run.inventory[i].f =>
      /\ \A k \in PriceKeys : Get(stored[i], k) = Get(run.read[i], k)
      /\ Get(stored[i], "priceError") = Get(run.inventory[i], "priceError")

\* C12: a record whose fetched result carried no usable price keeps its
\* marketPrice, yourPrice and lastUpdated, and the record persisted by the
\* run carries the priceError reason the run gave it.
C12_PriceErrorPersisted ==
  RunSaved => \A stored \in {loadInventoryItems(store)} : ErrorsStored(stored)

\* the records whose id was asked for in the k-th request
AskedIn(k) ==
  {i \in 1..Len(run.read) :
     \E j \in 1..Len(sent[k].batch) : sent[k].batch[j] = CandidateId(run.read[i])}

\* the stored record has the price fields of the item
StoredWith(stored, item) == \A k \in PriceKeys : Get(stored, k) = Get(item, k)

\* the failed chunks' records are stored with the price fields read, the
\* others with the price fields the run gave them
PartlyStored(stored) ==
  \A k \in 1..Len(sent) : \A i \in AskedIn(k) :
    IF sent[k].threw THEN StoredWith(stored[i], run.read[i])
    ELSE StoredWith(stored[i], normalizeItem(run.inventory[i]))

\* the failed chunks' records are stored with a priceError
FailedMarked(stored) ==
  \A k \in 1..Len(sent) : \A i \in AskedIn(k) :
    sent[k].threw => "priceError" \in DOMAIN stored[i].f

\* what a run with a failed chunk leaves, the priceError apart: one write,
\* and the price fields of each chunk as its response decides
PartialRun ==
  RunSaved => commits = 1 /\ \A stored \in {loadInventoryItems(store)} : PartlyStored(stored)

\* C13: in a run over several chunks of which one request failed, the other
\* chunks' records are persisted as updated, the failed chunk's records keep
\* their price fields and are persisted with a priceError, and the store is
\* written exactly once.
C13_FailedChunkMarked ==
  RunSaved =>
    /\ commits = 1
    /\ \A stored \in {loadInventoryItems(store)} : PartlyStored(stored) /\ FailedMarked(stored)

\* the records asked for in the k-th request are stored with a new price
Repriced(stored, k) ==
  \A i \in AskedIn(k) : Get(stored[i], "marketPrice") # Get(run.read[i], "marketPrice")

\* a run of three requests of which the second failed and the others priced
ThreeChunks ==
  /\ RunSaved
  /\ Len(sent) = 3
  /\ ~sent[1].threw /\ sent[2].threw /\ ~sent[3].threw
  /\ \E stored \in {loadInventoryItems(store)} : Repriced(stored, 1) /\ Repriced(stored, 3)

(***************************************************************************)
(* Properties of the watchlist                                             *)
(***************************************************************************)
\* the user's record of the id in the portfolio file, undefined if none
WatchedIn(items, k) == IF k = 0 THEN Undef ELSE items[k]

Watched(f, id) ==
  Only({WatchedIn(items, IndexOfId(items, Str(id))) :
        items \in {UserItems(loadPortfolios(FileAt(f, PORTFOLIO_PATH)), UserId)}})

BaselineOf(f, id) == Get(Watched(f, id), "addedMarketPrice")

\* the step answers a remove command that names the id
Removes(id) ==
  /\ Len(out') = Len(out) + 1
  /\ out'[Len(out')].cmd = "remove"
  /\ id \in out'[Len(out')].ids

\* a baseline that is set stays as it is, unless the step is a remove of the id
BaselineKept(id) ==
  IsFinite(BaselineOf(fs, id)) => BaselineOf(fs', id) = BaselineOf(fs, id) \/ Removes(id)

\* C14: a watchlist item that has a price observed has a baseline, and a
\* baseline, once set, is changed by no price check, stats run, cron run,
\* label update or re-add; it disappears only by a remove of the item.
C14_BaselineLocked ==
  /\ [](\A id \in WatchIds :
          IsFinite(Get(Watched(fs, id), "lastMarketPrice")) => IsFinite(BaselineOf(fs, id)))
  /\ [][\A id \in WatchIds : BaselineKept(id)]_vars

\* the item was added, priced at 10, and a later check saw 12
C14_Witness ==
  /\ Len(out) = MaxReplies
  /\ out[1].cmd = "add"
  /\ BaselineOf(fs, <<"1">>) = IntNum(10)
  /\ Get(Watched(fs, <<"1">>), "lastMarketPrice") = IntNum(12)

(***************************************************************************)
(* Properties of the backup                                                *)
(***************************************************************************)
\* the run logged "Backup failed (continuing anyway)"
Warned == \E i \in 1..Len(out) : "warn" \in DOMAIN out[i]

\* the step in which the backup fails goes on to the temporary file, with the
\* payload and the store as they were
BackupSwallowed ==
  Answers /\ "warn" \in DOMAIN out'[Len(out')]
    => pc'[Script] = "tmpOpen" /\ wdoc' = wdoc /\ FileAt(fs', INVENTORY_PATH) = store

\* C18: a failure of the backup (directory, copy or prune) does not stop the
\* write: the next step is the write of the temporary file, and once the
\* rename is done the store holds the new content.
C18_BackupNeverBlocks ==
  /\ [][BackupSwallowed]_vars
  /\ [](Warned /\ RunSaved => store = wdoc[Script])

\* the backup failed, no backup file exists, and the new content is committed
C18_Witness ==
  /\ Warned
  /\ RunSaved
  /\ backups = {}
  /\ store = wdoc[Script]
  /\ store # wpre[Script].content

(***************************************************************************)
(* Properties of the writers outside inventoryStore                        *)
(***************************************************************************)
\* a process was killed inside fs.writeFileSync(INVENTORY_PATH, ...)
KilledInPlace == \E p \in Procs : pc[p] = "dead" /\ wpre[p].content.kind = "json"

\* C19: whichever component writes the inventory file, INVENTORY_PATH changes
\* only by the rename of a complete temporary file: no step leaves it
\* truncated or partly written, and every change of it is such a rename.
C19_OnlyRenameEverywhere ==
  [][/\ store'.kind # "torn"
     /\ store' # store => \E p \in Procs : wtmp[p] # <<>> /\ store' = fs[wtmp[p]]]_vars

\* the store was complete, and the writer died leaving it truncated
TornStoreLeft == store.kind = "torn" /\ KilledInPlace

(***************************************************************************)
(* Properties of the requests to the price API                             *)
(***************************************************************************)
\* the i-th request has a grant of its own, made no later than the request
Granted(i) == i <= Len(grants) /\ grants[i] <= sent[i].at

\* no chunk is requested twice in one run
NoChunkTwice ==
  \A i, j \in 1..Len(sent) :
    i < j /\ sent[i].run = sent[j].run => sent[i].batch # sent[j].batch

\* C20: in a fetch run every request to the batch pricing API follows a
\* granted acquire of the rate limiter for its chunk, and a chunk is requested
\* at most once, also when its request failed.
C20_GrantedOncePerChunk ==
  /\ \A i \in 1..Len(sent) : Granted(i)
  /\ NoChunkTwice

\* a failed request of the bot: it was sent without a grant, and not again
BotAskedOnce ==
  /\ Len(sent) > 0
  /\ sent[Len(sent)].threw
  /\ sent[Len(sent)].run.by = "bot"
  /\ grants = <<>>

(***************************************************************************)
(* Properties of the choice of the variant and of the price                *)
(***************************************************************************)
Labelled(v) == v.t = "object" /\ Get(v, "condition") = Str(<<"Sealed">>)

Carries(v) == v.t = "object" /\ Get(v, "price").t \notin {"null", "undefined"}

\* the first element of the list that passes the test is the one chosen
FirstIs(l, chosen, Test(_)) ==
  \E i \in 1..Len(l) : Test(l[i]) /\ chosen = l[i] /\ \A j \in 1..(i - 1) : ~Test(l[j])

NoneIs(l, Test(_)) == \A i \in 1..Len(l) : ~Test(l[i])

\* the choice of one card, as the rule has it
RightChoice(e, l) ==
  /\ ~NoneIs(l, Labelled) => FirstIs(l, e.chosen, Labelled)
  /\ NoneIs(l, Labelled) /\ ~NoneIs(l, Carries) => FirstIs(l, e.chosen, Carries)
  /\ NoneIs(l, Labelled) /\ NoneIs(l, Carries) => e.price = Null /\ e.reason # Null

\* C21: for each card the variant chosen is the first whose condition is
\* "Sealed", else the first with a non-null price; with neither, the item gets
\* no price and a reason; in the refresh of the inventory and in the bot's fetch.
C21_SealedElsePriced ==
  \A i \in 1..Len(out) : RightChoice(out[i], ListOr(Get(out[i].card, "variants")))

\* the same for the refresh of the inventory alone
RefreshChoosesRight ==
  \A i \in 1..Len(out) :
    out[i].by = "refresh" => RightChoice(out[i], ListOr(Get(out[i].card, "variants")))

\* the bot chose an unpriced first variant while a later one carries a price
BotChoseUnpriced ==
  /\ Len(out) = 1
  /\ out[1].by = "bot"
  /\ ~Carries(out[1].chosen)
  /\ ~NoneIs(ListOr(Get(out[1].card, "variants")), Carries)
  /\ out[1].price = Null

(***************************************************************************)
(* Properties of the prices a refresh accepts and stores                   *)
(***************************************************************************)
\* the records the run gave a price
GivenPrice == {i \in 1..Len(run.inventory) :
                 run.inventory[i] # run.read[i] /\ "priceError" \notin DOMAIN run.inventory[i].f}

\* a number of (0, 10000]
InRange(v) == v.t = "number" /\ v.m > 0 /\ v.m <= 10000 * Unit

\* a number of [0, 10000] in whole cents
InRangeCents(v) == v.t = "number" /\ v.m >= 0 /\ v.m <= 10000 * Unit /\ v.m % 10 = 0

\* C22: a price is accepted only if it is finite, greater than 0 and at most
\* 10000, so every marketPrice a refresh writes to the inventory file lies in
\* (0, 10000].
C22_StoredInRange ==
  RunSaved =>
    \A stored \in {loadInventoryItems(store)} :
      \A i \in GivenPrice : InRange(Get(stored[i], "marketPrice"))

\* the price a refresh accepts is finite, greater than 0 and at most 10000, a
\* record whose price was rejected keeps the marketPrice read, and the file
\* holds the accepted price rounded to cents, a number of [0, 10000]
AcceptedInRange ==
  /\ \A i \in GivenPrice : InRange(Get(run.inventory[i], "marketPrice"))
  /\ \A i \in 1..Len(run.inventory) :
       "priceError" \in DOMAIN run.inventory[i].f =>
         Get(run.inventory[i], "marketPrice") = Get(run.read[i], "marketPrice")
  /\ RunSaved =>
       \A stored \in {loadInventoryItems(store)} :
         \A i \in GivenPrice :
           /\ InRangeCents(Get(stored[i], "marketPrice"))
           /\ Get(stored[i], "marketPrice").m = RoundCents(Get(run.inventory[i], "marketPrice").m)

\* a price of 0.004 was accepted, and the file holds 0
StoredZero ==
  /\ RunSaved
  /\ \E i \in GivenPrice :
       /\ Get(run.inventory[i], "marketPrice") = Num(4)
       /\ Get(loadInventoryItems(store)[i], "marketPrice") = Num(0)

\* the prices of the watchlist lie in (0, 10000]
WatchedInRange ==
  \A id \in WatchIds : \A k \in {"lastMarketPrice", "addedMarketPrice"} :
    \A v \in {Get(Watched(fs, id), k)} : IsNullish(v) \/ InRange(v)

(***************************************************************************)
(* Properties of the selection of the records to refresh                   *)
(***************************************************************************)
\* the instant of a record's lastUpdated, or -1 if it has none that parses
UpdatedAt(item) ==
  IF Get(item, "lastUpdated").t = "string" /\ IsDateStr(Get(item, "lastUpdated").s)
  THEN DigitsToNat(Tail(Get(item, "lastUpdated").s), 0) ELSE -1

\* the rule of the selection
ToRefresh(item, t, force) ==
  /\ Get(item, "tcgPlayerId").t = "string" /\ Get(item, "tcgPlayerId").s # <<>>
  /\ Get(item, "quantity").t = "number" /\ Get(item, "quantity").m > 0
  /\ \/ force
     \/ UpdatedAt(item) < 0
     \/ t - UpdatedAt(item) >= ONE_DAY_MS

\* C23: the records a refresh selects are those with a tcgPlayerId and a
\* quantity above 0 that, unless --force is given, have no lastUpdated that
\* parses or one at least 24 hours old; the price fields of the other records
\* are unchanged by the run, in memory and in the file it writes.
C23_SelectedIffStale ==
  /\ run.candidates = {i \in 1..Len(run.read) : ToRefresh(run.read[i], now, run.force)}
  /\ \A i \in (1..Len(run.read)) \ run.candidates :
       \A k \in PriceKeys : Get(run.inventory[i], k) = Get(run.read[i], k)
  /\ RunSaved =>
       \A stored \in {loadInventoryItems(store)} :
         \A i \in (1..Len(run.read)) \ run.candidates : StoredWith(stored[i], run.read[i])

\* a run without --force, a day after the first record was priced: it took
\* that record and the one with an unparseable date, and left the record
\* priced a second later and the recent one with the id of the first
C23_Witness ==
  /\ RunSaved
  /\ ~run.force
  /\ now = ONE_DAY_MS
  /\ run.candidates = {1, 5}
  /\ \E stored \in {loadInventoryItems(store)} :
       /\ Get(stored[1], "marketPrice") # Get(run.read[1], "marketPrice")
       /\ StoredWith(stored[6], run.read[6])

(***************************************************************************)
(* Properties of the index of the records by id                            *)
(***************************************************************************)
SameId(a, b) == Truthy(Get(a, "tcgPlayerId")) /\ Get(a, "tcgPlayerId") = Get(b, "tcgPlayerId")

\* C28: the index by id covers the whole inventory, not the selected records
\* only: when the card of an id gave a record its price, every record of the
\* inventory with that id got it.
C28_IndexOverAll ==
  \A i \in GivenPrice : \A j \in 1..Len(run.read) :
    SameId(run.read[i], run.read[j]) => j \in GivenPrice

\* the same for the selected records only
IndexOverCandidates ==
  \A i \in GivenPrice : \A j \in run.candidates :
    SameId(run.read[i], run.read[j]) => j \in GivenPrice

\* a forced run priced both records of the id 1
BothPriced == run.force /\ {1, 6} \subseteq GivenPrice

(***************************************************************************)
(* Properties of the price deltas                                          *)
(***************************************************************************)
\* the value is a number
Given(v) == v.t = "number"

\* the result of calcDelta for two numbers
RightDelta(r, c, p) ==
  /\ r.t = "object"
  /\ Get(r, "delta") = Num(c - p)
  /\ IF p = 0 THEN Get(r, "pct") = Null
     ELSE Get(r, "pct") = [t |-> "ratio", n |-> (c - p) * 100, d |-> p]

\* the result of calcDelta for any two values
RightResult(r, cur, prev) ==
  IF Given(cur) /\ Given(prev) THEN RightDelta(r, cur.m, prev.m)
  ELSE cur.t \in {"null", "undefined"} \/ prev.t \in {"null", "undefined"} \/
       ~IsFinite(ToNumber(cur)) \/ ~IsFinite(ToNumber(prev)) => r = Null

\* the delta a line shows against an earlier price of the item
RightText(text, cur, past) ==
  IF Given(cur) /\ Given(past)
  THEN /\ Get(text, "delta") = Num(cur.m - past.m)
       /\ past.m = 0 => Get(text, "pct") = Null
       /\ past.m # 0 =>
            \A h \in {Get(text, "pct").m \div 10} :
              /\ Get(text, "pct").m % 10 = 0
              /\ h * past.m - (cur.m - past.m) * 10000 <= Abs(past.m) \div 2
              /\ (cur.m - past.m) * 10000 - h * past.m <= Abs(past.m) \div 2
  ELSE past.t = "undefined" \/ cur.t = "null" => text = Null

\* C24: calcDelta(cur, prev) returns delta = cur - prev with pct = delta / prev
\* x 100 when prev is not 0 and a null pct when prev is 0, and returns no delta
\* when a value is missing or not finite; the line of an item shows the delta
\* against lastMarketPrice (since last) and against addedMarketPrice (since
\* added), the percentage to two decimals.
C24_DeltaAndPct ==
  \A i \in 1..Len(out) :
    /\ "result" \in DOMAIN out[i] => RightResult(out[i].result, out[i].cur, out[i].prev)
    /\ "line" \in DOMAIN out[i] =>
         /\ RightText(out[i].line.sinceLast, out[i].line.market,
                      Get(out[i].item, "lastMarketPrice"))
         /\ RightText(out[i].line.sinceAdded, out[i].line.market,
                      Get(out[i].item, "addedMarketPrice"))

\* baseline 100, last seen at 110, now 108: -2 and -1.82% since last, +8 and
\* +8% since added
C24_Witness ==
  /\ Len(out) = 1
  /\ "line" \in DOMAIN out[1]
  /\ Get(out[1].item, "addedMarketPrice") = IntNum(100)
  /\ Get(out[1].item, "lastMarketPrice") = IntNum(110)
  /\ out[1].line.market = IntNum(108)
  /\ out[1].line.sinceLast = Obj([delta |-> IntNum(-2), pct |-> Num(-1820)])
  /\ out[1].line.sinceAdded = Obj([delta |-> IntNum(8), pct |-> IntNum(8)])

(***************************************************************************)
(* Properties of the operations handed something that is no list           *)
(***************************************************************************)
\* the step is a writeInventoryFile call whose items are no list
NonListWritten == lastInput' # lastInput /\ lastInput'.t # "array"

\* the step answers a POST /api/inventory whose body is no list
NonListPosted == Answers /\ "body" \in DOMAIN out'[Len(out')] /\ out'[Len(out')].body.t # "array"

\* the admin save refuses such a body with status 400 and leaves the files alone
AdminRefusesNonList ==
  [][NonListPosted => out'[Len(out')].status = 400 /\ fs' = fs /\ backups' = backups]_vars

\* C25: an operation that replaces the store and is handed a top-level
\* payload that is no list ends in a failure, and the store file keeps its
\* content: for writeInventoryFile, the store is as before the call; for the
\* admin save, the answer is 400 and the store is as before.
C25_NonListRefused ==
  [][/\ NonListWritten => store' = store
     /\ NonListPosted => out'[Len(out')].status = 400 /\ store' = store]_vars

\* writeInventoryFile was handed null, and the store holds an empty inventory
EmptiedByNonList ==
  /\ lastInput = Null
  /\ store.kind = "json"
  /\ StoreItems = Arr(<<>>)
  /\ backups # {}

(***************************************************************************)
(* C26: the daily allowance of !inventorynow                               *)
(***************************************************************************)
\* the !inventorynow messages that were handled: refused, answered or awaiting
NowHandled ==
  {out[i].now : i \in {j \in 1..Len(out) : "now" \in DOMAIN out[j]}}
    \cup {c.now : c \in {x \in checks : "now" \in DOMAIN x}}

NowRefused ==
  {out[i].now : i \in {j \in 1..Len(out) : "now" \in DOMAIN out[j] /\ out[j].cmd = "cooldown"}}

\* the price checks that !inventorynow started
NowStarted == NowHandled \ NowRefused

EasternDay(call) == (call.at - EasternOffsetMs) \div ONE_DAY_MS

\* C26: a user who is no guild administrator and is not listed in
\* NO_COOLDOWN_USER_IDS starts at most one on-demand check per Eastern day,
\* whatever the order of the messages and of the ends of the checks; a
\* message is refused only when a check was started earlier the same Eastern
\* day, so the allowance is back when the day key changes
C26_OncePerEasternDay ==
  /\ \A a, b \in {x \in NowStarted : x.user = UserId} :
       a # b => EasternDay(a) # EasternDay(b)
  /\ \A r \in NowRefused :
       /\ r.user = UserId
       /\ \E a \in NowStarted : a.user = r.user /\ a.n < r.n /\ EasternDay(a) = EasternDay(r)

\* a check started, a second message refused while the first check awaits its
\* prices, and a check started the next Eastern day
AllowanceBack ==
  /\ \E a, b \in {x \in NowStarted : x.user = UserId} : EasternDay(a) < EasternDay(b)
  /\ \E r \in NowRefused : \E c \in checks : "now" \in DOMAIN c /\ c.now.n < r.n /\ c.now.at = r.at

(***************************************************************************)
(* C27: two writes of the store that overlap                               *)
(***************************************************************************)
\* the process is inside writeInventoryFile
Writing(p) == pc[p] \in {"backup", "prune", "tmpOpen", "tmpWrite", "rename"}

\* the process whose rename was the latest
LastRenamer == IF lastWriter = "admin" THEN Server ELSE Script

\* the other process renamed while the latest write of p was under way
Overlapped(p) == commits >= wpre[p].commits + 2

\* the step is the rename of p, made after the other process renamed
RenamesOver(p) == pc[p] = "rename" /\ pc'[p] \notin {"rename", "dead"} /\ commits > wpre[p].commits

\* C27: when two writes of the same store path overlapped, the file is the
\* complete text of the one that renamed last, never a mixture; the rename
\* that replaces the other write's text changes nothing of the other process
\* and reports nothing: the other result is lost silently
C27_LastRenameWins ==
  /\ [](\A p \in Procs :
          (commits > 0 /\ p = LastRenamer /\ ~Writing(p) /\ pc[p] # "dead" /\ Overlapped(p)) =>
             store = wdoc[p])
  /\ [][\A p \in Procs :
          RenamesOver(p) =>
            /\ store' = wdoc[p]
            /\ out' = out
            /\ \A q \in Procs \ {p} : pc'[q] = pc[q] /\ wdoc'[q] = wdoc[q]]_vars

\* both writes ran to their end while they overlapped, and their texts differ:
\* the text of the first to rename is nowhere
LoserLost ==
  \E p \in Procs : \E q \in Procs \ {p} :
    /\ p = LastRenamer /\ Overlapped(p) /\ pc[p] = "idle" /\ pc[q] = "idle"
    /\ wpre[q].commits <= wpre[p].commits + 1
    /\ wdoc[q].kind = "json" /\ wdoc[q] # wdoc[p]
    /\ store = wdoc[p]
    /\ \A x \in DOMAIN fs : fs[x] # wdoc[q]

(***************************************************************************)
(* C29: the wait of the batch limiter at capacity                          *)
(***************************************************************************)
\* the step suspends the call of the batch limiter
Suspends == job = "batch" /\ pc[Script] = "idle" /\ pc'[Script] = "wait"

\* the step is the end of that wait: the slot is granted
Resumes == job = "batch" /\ pc[Script] = "wait" /\ pc'[Script] = "idle"

\* the wait computed by the step
Waited == lim'.wake - now

\* the computed wait is greater than 0 and at most the window
BatchWaitBounded == [][Suspends => Waited > 0 /\ Waited <= WINDOW_MS]_vars

\* C29: at capacity the batch limiter suspends until the oldest timestamp is
\* out of the 60-second window by a margin greater than 0, the wait being
\* greater than 0 and at most the window plus the margin, and it re-checks
\* the window before it grants: the timestamps it keeps after the grant are
\* those of the window, at most MAX_BATCH_CALLS_PER_MIN
C29_WaitsPastWindowThenRechecks ==
  [][/\ Suspends => Waited > 0 /\ lim'.wake - SeqMin(lim'.stamps) > WINDOW_MS
     /\ Resumes => Len(lim'.stamps) <= MAX_BATCH_CALLS_PER_MIN]_vars

\* the call made at capacity was granted the instant the oldest timestamp
\* reached the age of the window, with the timestamps of the full window kept
GrantedOnTheEdge ==
  /\ job = "batch"
  /\ pc[Script] = "idle"
  /\ Len(lim.stamps) = MAX_BATCH_CALLS_PER_MIN + 1
  /\ lim.stamps[Len(lim.stamps)] - lim.stamps[1] = WINDOW_MS

(***************************************************************************)
(* C30: a remove while a price check awaits its prices                     *)
(***************************************************************************)
\* the ids of the user's stored watchlist
StoredIds(f) ==
  {Get(it, "tcgplayerId").s :
     it \in {list[i] : list \in {UserItems(loadPortfolios(FileAt(f, PORTFOLIO_PATH)), UserId)},
                       i \in 1..Len(UserItems(loadPortfolios(FileAt(f, PORTFOLIO_PATH)), UserId))}}

\* the step is the end of a price check: its prices are persisted
Persists == \E c \in checks : checks' = checks \ {c}

\* C30: the run that persists its prices stores no id that is absent from the
\* list it loads at that moment: an item removed while the run awaited its
\* prices is not in the stored watchlist afterwards
C30_RemovedStaysRemoved == [][Persists => StoredIds(fs') \subseteq StoredIds(fs)]_vars

\* the latest commands were a remove and then the end of a check, and the
\* removed id is stored
ReAdded ==
  /\ Len(out) >= 2
  /\ out[Len(out)].cmd = "prices"
  /\ out[Len(out) - 1].cmd = "remove"
  /\ out[Len(out) - 1].ids \cap StoredIds(fs) # {}

(***************************************************************************)
(* C31: the since-last delta of a report, and of the next one              *)
(***************************************************************************)
\* the step is the end of the check c: its report is the latest reply
Reports(c) == c \in checks /\ checks' = checks \ {c} /\ Len(out') > Len(out)

\* the line shows the market price less last, or nothing if one of them is missing
SinceLastIs(line, last) ==
  IF IsFinite(line.market) /\ IsFinite(last)
  THEN Get(line.sinceLast, "delta") = Num(line.market.m - last.m)
  ELSE line.sinceLast = Null

\* the report that preceded the start of the check of r, if that was a report
\* whose save was made
Preceding(r) == IF r.n > 0 /\ "lines" \in DOMAIN out[r.n] /\ out[r.n].saved THEN {out[r.n]} ELSE {}

\* C31: the since-last delta of a report is taken against the lastMarketPrice
\* that was stored when the check loaded the list; the fetched price is stored
\* as lastMarketPrice by the same step, after the lines; so the since-last
\* delta of the next check is taken against the price this check observed
C31_SinceLastIsPreviousCheck ==
  [][\A c \in checks :
       Reports(c) =>
         \A r \in {out'[Len(out')]} : \A i \in 1..Len(c.list) :
           /\ SinceLastIs(r.lines[i], FiniteOrNull(Get(c.list[i], "lastMarketPrice")))
           /\ r.saved /\ IsFinite(r.lines[i].market) =>
                Get(Watched(fs', Get(c.list[i], "tcgplayerId").s), "lastMarketPrice") = r.lines[i].market
           /\ \A q \in Preceding(r) :
                Len(q.lines) = Len(r.lines) /\ IsFinite(q.lines[i].market) =>
                  SinceLastIs(r.lines[i], q.lines[i].market)]_vars

\* a check saw 10 and stored it; the next one saw 12 and showed +2
C31_Witness ==
  /\ Len(out) >= 2
  /\ \E r \in {out[Len(out)]} :
       /\ "lines" \in DOMAIN r /\ r.n = Len(out) - 1
       /\ \E q \in Preceding(r) : q.lines[1].market = IntNum(10)
       /\ r.lines[1].market = IntNum(12)
       /\ Get(r.lines[1].sinceLast, "delta") = IntNum(2)
       /\ r.saved

(***************************************************************************)
(* C32: lastUpdated and the next selection                                 *)
(***************************************************************************)
\* the variant's price is one the refresh accepts
Accepted(price) ==
  /\ ~IsNullish(price)
  /\ IsFinite(ToNumber(price))
  /\ ToNumber(price).m > 0 /\ ToNumber(price).m <= 10000 * Unit

\* a response of the run held a card with the record's id and an accepted price
PriceSeen(i) ==
  \E k \in 1..Len(out) : \E cards \in {CardsOf(out[k].answer)} : \E j \in 1..Len(cards) :
    /\ out[k].n = nJobs
    /\ Truthy(Get(cards[j], "tcgplayerId"))
    /\ JsString(Get(cards[j], "tcgplayerId")) = CandidateId(run.read[i])
    /\ Accepted(Get(ChooseVariant(cards[j]), "price"))

\* the record was selected and a price was observed for it
PriceObserved(i) == i \in run.candidates /\ PriceSeen(i)

\* the instants at which a next run may start
LaterTimes == {now, now + MsPerSec, now + ONE_DAY_MS}

\* the record is stored with the lastUpdated that was read
LastUpdatedKept(stored, i) == Get(stored[i], "lastUpdated") = Get(run.read[i], "lastUpdated")

\* C32 as stated: a record's lastUpdated advances only by an observed price; a
\* selected record with a failed chunk, a missing card or a rejected price
\* keeps its lastUpdated and is selected by the next run without --force
C32_FailedIsSelectedAgain ==
  RunSaved =>
    \A stored \in {loadInventoryItems(store)} : \A i \in 1..Len(run.read) :
      ~PriceObserved(i) =>
        /\ LastUpdatedKept(stored, i)
        /\ i \in run.candidates => \A t \in LaterTimes : i \in Candidates(stored, t, FALSE)

\* C32, amended: a record's lastUpdated advances only by an observed price; a
\* record selected by a run without --force, with a failed chunk, a missing
\* card or a rejected price, keeps its lastUpdated and is selected by the next
\* run without --force; a record that only --force selected keeps a recent
\* lastUpdated and is not selected again until that is a day old
C32_FailedUnforcedIsSelectedAgain ==
  RunSaved =>
    \A stored \in {loadInventoryItems(store)} : \A i \in 1..Len(run.read) :
      /\ PriceObserved(i) => Get(stored[i], "lastUpdated") = IsoOf(now)
      /\ ~PriceObserved(i) =>
           /\ LastUpdatedKept(stored, i)
           /\ i \in Candidates(run.read, now, FALSE) =>
                \A t \in LaterTimes : i \in Candidates(stored, t, FALSE)
           /\ i \in run.candidates \ Candidates(run.read, now, FALSE) =>
                i \notin Candidates(stored, now, FALSE)

\* a run without --force whose response had no card: the selected record with
\* a date keeps it and will be selected again
C32_Witness ==
  /\ RunSaved
  /\ ~run.force
  /\ out # <<>> /\ out[Len(out)].answer = Arr(<<>>) /\ out[Len(out)].n = nJobs
  /\ 1 \in run.candidates
  /\ Get(loadInventoryItems(store)[1], "lastUpdated") = IsoOf(0)
  /\ 1 \in Candidates(loadInventoryItems(store), now, FALSE)

(***************************************************************************)
(* C33: a price check without a price for an item                          *)
(***************************************************************************)
\* the fields of a watched item other than lastCheckedAt
KeptWatchKeys ==
  {"tcgplayerId", "label", "addedAt", "addedMarketPrice", "lastMarketPrice", "lastAlertedAt"}

\* C33: when a price check has no valid price for an item of the watchlist
\* (the request failed, the card is missing or its price is refused), the
\* persist leaves lastMarketPrice, addedMarketPrice, addedAt and every other
\* field of the stored item as they were and sets only lastCheckedAt
C33_NoPriceOnlyStampsCheck ==
  [][\A c \in checks :
       Reports(c) =>
         \A r \in {out'[Len(out')]} : \A i \in 1..Len(c.list) :
           \A id \in {Get(c.list[i], "tcgplayerId").s} :
             (~IsFinite(r.lines[i].market) /\ Watched(fs, id) # Undef) =>
               /\ \A k \in KeptWatchKeys : Get(Watched(fs', id), k) = Get(Watched(fs, id), k)
               /\ r.saved => Get(Watched(fs', id), "lastCheckedAt") = IsoOf(now)]_vars

\* a check stored 12, and the next one, without a price, was saved: 12 and the
\* baseline are still stored
C33_Witness ==
  /\ Len(out) >= 2
  /\ \E r \in {out[Len(out)]} :
       /\ "lines" \in DOMAIN r /\ r.saved /\ r.lines[1].market = Null
       /\ \E q \in Preceding(r) : q.lines[1].market = IntNum(12)
  /\ Get(Watched(fs, <<"1">>), "lastMarketPrice") = IntNum(12)
  /\ IsFinite(BaselineOf(fs, <<"1">>))

(***************************************************************************)
(* C34: a refresh run ends                                                 *)
(***************************************************************************)
\* the run was started and is over
RunOver == nJobs > 0 /\ job = "none" /\ pc[Script] = "idle"

\* a run starts and finds no candidate
StartsIdle == nJobs' = nJobs + 1 /\ run'.candidates = {}

\* C34: every refresh run ends. A run with a candidate makes one save, with
\* which it ends, whatever chunks failed and whatever the responses were; a
\* run without a candidate ends where it starts, with no request made, no
\* backup created and the store not written
C34_RunEnds ==
  /\ nJobs > 0 ~> RunOver
  /\ [][commits' # commits => commits' = commits + 1 /\ pc[Script] = "rename" /\ RunOver']_vars
  /\ [](RunOver /\ run.candidates # {} =>
          commits = wpre[Script].commits + 1 /\ lastWriter = "update" /\ store = wdoc[Script])
  /\ [][StartsIdle =>
          RunOver' /\ sent' = sent /\ backups' = backups /\ fs' = fs /\ commits' = commits]_vars

\* a run of three chunks that all failed has saved
AllChunksFailedSaved ==
  /\ RunOver
  /\ commits = 1
  /\ Len(sent) = 3
  /\ \A k \in 1..Len(sent) : sent[k].threw

(***************************************************************************)
(* Properties of the backup taken by a write                               *)
(***************************************************************************)
\* the backup file modified last
NewestBackups == {b \in backups : \A x \in backups : x.mtimeMs <= b.mtimeMs}

\* the newest backup file holds c
NewestHolds(c) == NewestBackups # {} /\ \A b \in NewestBackups : b.content = c

\* the rename of p's write replaces a store file
RenamesOnto(p) ==
  pc[p] = "rename" /\ pc'[p] # "rename" /\ commits' = commits + 1 /\ store.kind # "absent"

\* makeBackupIfExists of p has logged no warning
BackupDone(p) == \A k \in 1..Len(out) : "warn" \in DOMAIN out[k] => out[k].warn # p

\* the store path is as p's write found it
Undisturbed(p) == wpre[p].commits = commits

\* makeBackupIfExists of p finds no file at the store path
SkipsBackup(p) == pc[p] = "backup" /\ pc'[p] = "tmpOpen" /\ store.kind = "absent"

RawLists(c) ==
  IF c.kind = "json" /\ c.v.t = "object" THEN {c.v.f[u] : u \in DOMAIN c.v.f} ELSE {}

\* a list of records, each with a non-empty tcgplayerId that no other record has
OnePerId(list) ==
  /\ list.t = "array"
  /\ \A i \in 1..Len(list.l) :
       /\ Get(list.l[i], "tcgplayerId").t = "string"
       /\ Get(list.l[i], "tcgplayerId").s # <<>>
       /\ \A j \in 1..Len(list.l) :
            Get(list.l[j], "tcgplayerId") = Get(list.l[i], "tcgplayerId") => j = i

WatchlistsOnePerId(c) == c.kind # "torn" /\ \A list \in RawLists(c) : OnePerId(list)

\* C36: every step that writes the watchlist file leaves in it, for every
\* user, at most one entry per tcgplayerId and no entry with an empty
\* tcgplayerId; a file that is so stays so under every command.
C36_StoredOnePerId ==
  [][WatchlistsOnePerId(watchFile) \/ FileAt(fs', PORTFOLIO_PATH) # watchFile
       => WatchlistsOnePerId(FileAt(fs', PORTFOLIO_PATH))]_vars

\* the file held two entries for one id, one of them under the key id; after
\* three commands it holds that id once
C36_Witness ==
  /\ Len(out) = MaxReplies
  /\ watchFile # LegacyWatch
  /\ ~WatchlistsOnePerId(LegacyWatch)
  /\ WatchlistsOnePerId(watchFile)
  /\ \E list \in RawLists(watchFile) :
       \E i \in 1..Len(list.l) :
         /\ Get(list.l[i], "tcgplayerId") = Str(<<"1">>)
         /\ Get(list.l[i], "label") = Str(<<"L">>)
         /\ Get(list.l[i], "addedMarketPrice") = IntNum(10)

(***************************************************************************)
(* Properties of the rows of an admin save                                 *)
(***************************************************************************)
\* the records of old with the row's tcgPlayerId
IdMatches(row, old) ==
  {j \in 1..Len(old) : RowId(row) # <<>> /\ Get(old[j], "tcgPlayerId") = Str(RowId(row))}

\* the records of old with the row's name, letter case apart
NameMatches(row, old) ==
  {j \in 1..Len(old) :
     /\ RowName(row) # <<>>
     /\ Get(old[j], "name").t = "string"
     /\ ToLower(Get(old[j], "name").s) = ToLower(RowName(row))}

\* by tcgPlayerId or, failing that, by lower-cased name
RowMatches(row, old) ==
  IF IdMatches(row, old) # {} THEN IdMatches(row, old) ELSE NameMatches(row, old)

SaveKeptKeys == {"marketPrice", "yourPrice", "lastUpdated", "setName", "tcgPlayerUrl", "imageUrl"}

\* the saved record of a row: the kept fields of a record it matches and the
\* row's quantity, or no price fields if it matches nothing
SavedForRow(saved, row, old) ==
  IF RowMatches(row, old) # {}
  THEN /\ \E j \in RowMatches(row, old) : \A k \in SaveKeptKeys : Get(saved, k) = Get(old[j], k)
       /\ Get(saved, "quantity") = RowQuantity(row)
  ELSE \A k \in PriceKeys : Get(saved, k) = Undef

SelectedIds == {CandidateId(run.read[i]) : i \in run.candidates}

\* the requests of the run that is over
RunSent == SelectSeq(sent, LAMBDA r : r.run = [by |-> "script", n |-> nJobs])

\* the places of id in the requests of the run
PlacesOf(id) == {<<k, i>> \in (1..Len(RunSent)) \X (1..BATCH_SIZE) :
                   i <= Len(RunSent[k].batch) /\ RunSent[k].batch[i] = id}

\* the ceiling of n / size
CeilDiv(n, size) == (n + size - 1) \div size

\* C38: when a run is over, every distinct selected id has been sent in exactly
\* one chunk and once in it, nothing else was sent, no chunk holds more than
\* BATCH_SIZE ids, and the chunks are as many as the ceiling of the number of
\* distinct ids divided by BATCH_SIZE.
C38_DistinctIdsChunked ==
  RunOver =>
    /\ \A id \in SelectedIds : Cardinality(PlacesOf(id)) = 1
    /\ \A k \in 1..Len(RunSent) :
         /\ Len(RunSent[k].batch) <= BATCH_SIZE
         /\ \A i \in 1..Len(RunSent[k].batch) : RunSent[k].batch[i] \in SelectedIds
    /\ Len(RunSent) = CeilDiv(Cardinality(SelectedIds), BATCH_SIZE)

\* 42 selected records of 41 ids were sent in chunks of 20, 20 and 1
C38_Witness ==
  /\ RunOver
  /\ Cardinality(run.candidates) = 2 * BATCH_SIZE + 2
  /\ Cardinality(SelectedIds) = 2 * BATCH_SIZE + 1
  /\ Len(RunSent) = 3
  /\ Len(RunSent[3].batch) = 1

(***************************************************************************)
(* Properties of the watchlists of the other users                         *)
(***************************************************************************)
\* the lists of the users other than UserId, as the file holds them
OthersStored(c) ==
  IF c.kind = "json" /\ c.v.t = "object"
  THEN [w \in DOMAIN c.v.f \ {UserId} |-> c.v.f[w]]
  ELSE [w \in {} |-> Null]

\* the lists of the users other than UserId, as loadPortfolios reads them and
\* a save would write them
OthersRead(c) ==
  Only({[w \in DOMAIN all.f \ {UserId} |-> JsonOf(all.f[w])] : all \in {loadPortfolios(c)}})

\* C39: no step of a command or price persist of one user changes what is
\* read as the watchlist of another user, and, when the file holds that
\* watchlist in the form a save gives it, the file's entry for that user is
\* unchanged as well.
C39_OtherUsersUntouched ==
  [][/\ OthersRead(FileAt(fs', PORTFOLIO_PATH)) = OthersRead(watchFile)
     /\ OthersStored(watchFile) = OthersRead(watchFile)
          => OthersStored(FileAt(fs', PORTFOLIO_PATH)) = OthersStored(watchFile)]_vars

\* three commands of u were answered, u's list was rewritten, and the file
\* still holds v's two records
C39_Witness ==
  /\ Len(out) = MaxReplies
  /\ watchFile.kind = "json"
  /\ "v" \in DOMAIN OthersStored(watchFile)
  /\ OthersStored(watchFile) = OthersRead(watchFile)
  /\ Len(OthersStored(watchFile)["v"].l) = 2
  /\ Len(UserItems(loadPortfolios(watchFile), UserId)) = 1

(***************************************************************************)
(* Properties of a save of the watchlists that fails                       *)
(***************************************************************************)
\* the step answers an !inventoryadd with its confirmation
ConfirmsAdd == Len(out') = Len(out) + 1 /\ out'[Len(out')].cmd = "add"

\* C40: a command whose savePortfolios call failed does not answer with a
\* success confirmation: an !inventoryadd that is confirmed over an empty
\* watchlist has stored its items.
C40_FailedSaveNotConfirmed ==
  [][ConfirmsAdd /\ StoredIds(fs) = {}
       => StoredIds(fs') # {}]_vars

\* the other half of the statement: a confirmed !inventoryadd that stored
\* nothing has left the file as the load found it
C40_FailedSaveKeepsFile ==
  [][ConfirmsAdd /\ StoredIds(fs) = {} /\ StoredIds(fs') = {}
       => FileAt(fs', PORTFOLIO_PATH) = FileAt(Loaded(fs), PORTFOLIO_PATH)]_vars

====
